---- MODULE Spec2Model ----
(***************************************************************************)
(* A model of the grammar combinators of sqlfluff's parser                 *)
(* (src/sqlfluff/core/parser/grammar.py): the scanner primitives of        *)
(* BaseGrammar and the match methods of Ref, Anything, Nothing,            *)
(* AnyNumberOf, OneOf, GreedyUntil, StartsWith, Sequence, Delimited and    *)
(* Bracketed.  Every match is an operator from (grammar, segments,         *)
(* parse context) to an outcome: a MatchResult, or a raised error, with    *)
(* the parse context as the call left it.                                  *)
(***************************************************************************)
EXTENDS Integers, Sequences, FiniteSets, TLC

VARIABLES
    segments,      \* the input of the current parse: a tuple of segments
    grammar,       \* the grammar whose match was called last
    result,        \* the outcome of that call
    context,       \* the parse context (depth, blacklist, ...) after it
    calls,         \* the number of match calls made in this parse
    seg_buff,      \* scanner / Sequence stepping: the working buffer
    pre_seg_buff,  \* scanner stepping: the segments scanned so far
    bracket_stack, \* scanner stepping: the open brackets
    matched_segments, \* Sequence stepping: the matched accumulator
    idx,           \* Sequence stepping: the index of the current element
    pc             \* stepping: "idle", "scan", "seq", "done"

vars == <<segments, grammar, result, context, calls, seg_buff, pre_seg_buff,
          bracket_stack, matched_segments, idx, pc>>

----------------------------------------------------------------------------
(* Bounds of the model.                                                    *)

MaxLen == 3
MaxScanLen == 4
MaxCalls == 2
MaxDelimitedLen == 5
MaxBracketedLen == 5
MaxGreedyLen == 5
MaxLookLen == 4
MaxLoopLen == 3
MaxPruneLen == 3
MaxIterations == 4

----------------------------------------------------------------------------
(* Segments: the capabilities the grammar consumes from segment objects.   *)
(* A lexed segment is its identity (its index in the input) and its raw;   *)
(* a meta segment (Indent, Dedent) has an empty raw and no identity in     *)
(* the input.                                                              *)

TypeOf(raw) ==
    IF raw = "_" THEN "whitespace"
    ELSE IF raw = "#" THEN "comment"
    ELSE "raw"

MkSeg(i, raw) == [id |-> i, raw |-> raw, type |-> TypeOf(raw)]

Lex(raws) == [i \in 1..Len(raws) |-> MkSeg(i, raws[i])]

MetaSeg(kind) == [id |-> 0, raw |-> "", type |-> kind]

IsMeta(seg) == seg.type \in {"indent", "dedent"}

IsCode(seg) == seg.type = "raw"

RawUpper(seg) == seg.raw

Tail2(s, n) == SubSeq(s, n + 1, Len(s))   \* s[n:]

Head2(s, n) == SubSeq(s, 1, n)            \* s[:n]

RECURSIVE NonMeta(_)
NonMeta(s) ==
    IF s = <<>> THEN <<>>
    ELSE IF IsMeta(s[1]) THEN NonMeta(Tail(s))
    ELSE <<s[1]>> \o NonMeta(Tail(s))

RECURSIVE LeadingNonCode(_)
LeadingNonCode(s) ==     \* the length of the non-code prefix of s
    IF s = <<>> \/ IsCode(s[1]) THEN 0 ELSE 1 + LeadingNonCode(Tail(s))

RECURSIVE TrailingNonCode(_)
TrailingNonCode(s) ==    \* the length of the non-code suffix of s
    IF s = <<>> \/ IsCode(s[Len(s)]) THEN 0
    ELSE 1 + TrailingNonCode(Head2(s, Len(s) - 1))

(* trim_non_code: (leading non-code, middle, trailing non-code).           *)
trim_non_code(s) ==
    LET a == LeadingNonCode(s)
        rest == Tail2(s, a)
        b == TrailingNonCode(rest)
    IN <<Head2(s, a), Head2(rest, Len(rest) - b), Tail2(rest, Len(rest) - b)>>

(* check_still_complete: the raws of matched + unmatched are the raws of   *)
(* the input (meta segments have an empty raw and do not count).           *)
RawsOf(s) == [i \in 1..Len(NonMeta(s)) |-> NonMeta(s)[i].raw]

check_still_complete(segs_in, matched, unmatched) ==
    RawsOf(matched \o unmatched) = RawsOf(segs_in)

----------------------------------------------------------------------------
(* MatchResult and raised errors.  An outcome carries the context as the   *)
(* call left it; err = "none" for a returned MatchResult.                  *)

MatchResult(matched, unmatched, ctx) ==
    [matched |-> matched, unmatched |-> unmatched, err |-> "none",
     eseg |-> <<>>, ctx |-> ctx]

from_unmatched(segs, ctx) == MatchResult(<<>>, segs, ctx)

from_matched(segs, ctx) == MatchResult(segs, <<>>, ctx)

from_empty(ctx) == MatchResult(<<>>, <<>>, ctx)

Raise(kind, eseg, ctx) ==
    [matched |-> <<>>, unmatched |-> <<>>, err |-> kind, eseg |-> eseg,
     ctx |-> ctx]

is_complete(m) == Len(m.unmatched) = 0

has_match(m) == Len(m.matched) > 0

Raised(m) == m.err # "none"

all_segments(m) == m.matched \o m.unmatched

(* raw_matched: the concatenated raw of the matched segments; only its     *)
(* length is used.                                                         *)
RECURSIVE RawLen(_)
RawLen(s) ==
    IF s = <<>> THEN 0
    ELSE (IF s[1].raw = "" THEN 0 ELSE 1) + RawLen(Tail(s))

----------------------------------------------------------------------------
(* The parse context: the depth counter and current matching segment of    *)
(* the scoped acquisitions, the blacklist, the allocator of object         *)
(* identities, and the log that match_wrapper writes (who called whom, at  *)
(* which depth relative to the caller).                                    *)

NewContext ==
    [depth |-> 0, matching |-> "", blacklist |-> {}, next_oid |-> 1,
     log |-> {}, frame |-> <<"top", 0>>, tried |-> <<>>]

(* with parse_context.deeper_match() as ctx: ... *)
deeper_match(ctx) == [ctx EXCEPT !.depth = @ + 1]

leave_deeper(r) == [r EXCEPT !.ctx.depth = @ - 1]

(* with parse_context.matching_segment(name) as ctx: ... *)
matching_segment(ctx, name) == [ctx EXCEPT !.matching = name]

leave_matching(r, name) == [r EXCEPT !.ctx.matching = name]

(* blacklist.check / blacklist.mark: membership of (name, key) in a set.   *)
blacklist_check(ctx, name, key) == <<name, key>> \in ctx.blacklist

blacklist_mark(ctx, name, key) ==
    [ctx EXCEPT !.blacklist = @ \cup {<<name, key>>}]

----------------------------------------------------------------------------
(* Grammars.  A grammar is a record of its class (kind) and its            *)
(* configuration; an absent sub-grammar or number (None) is the empty      *)
(* tuple, a present one a tuple of one.                                    *)

BaseGrammar ==
    [kind |-> "BaseGrammar", elements |-> <<>>, allow_gaps |-> TRUE,
     optional |-> FALSE, name |-> "", min_times |-> 0, max_times |-> <<>>,
     exclude |-> <<>>, delimiter |-> <<>>, terminator |-> <<>>,
     allow_trailing |-> FALSE, min_delimiters |-> <<>>, target |-> <<>>,
     enforce_whitespace_preceeding_terminator |-> FALSE,
     include_terminator |-> FALSE, square |-> FALSE, enabled |-> TRUE]

(* A keyword segment class of the dialect: it matches one segment whose    *)
(* upper-cased raw is its template.                                        *)
Keyword(template) == [BaseGrammar EXCEPT !.kind = "Keyword", !.name = template]

(* The Indent and Dedent meta segment classes. *)
Indent == [BaseGrammar EXCEPT !.kind = "Indent"]

Dedent == [BaseGrammar EXCEPT !.kind = "Dedent"]

Ref(name) == [BaseGrammar EXCEPT !.kind = "Ref", !.name = name]

Anything == [BaseGrammar EXCEPT !.kind = "Anything"]

Nothing == [BaseGrammar EXCEPT !.kind = "Nothing"]

AnyNumberOf(elements, min_times, max_times) ==
    [BaseGrammar EXCEPT !.kind = "AnyNumberOf", !.elements = elements,
                        !.min_times = min_times, !.max_times = max_times]

OneOf(elements) ==
    [BaseGrammar EXCEPT !.kind = "OneOf", !.elements = elements,
                        !.min_times = 1, !.max_times = <<1>>]

GreedyUntil(elements) ==
    [BaseGrammar EXCEPT !.kind = "GreedyUntil", !.elements = elements]

Sequence(elements) ==
    [BaseGrammar EXCEPT !.kind = "Sequence", !.elements = elements]

Delimited(elements, delimiter) ==
    [BaseGrammar EXCEPT !.kind = "Delimited", !.elements = elements,
                        !.delimiter = <<delimiter>>]

StartsWith(target) ==
    [BaseGrammar EXCEPT !.kind = "StartsWith", !.target = <<target>>]

Bracketed(elements) ==
    [BaseGrammar EXCEPT !.kind = "Bracketed", !.elements = elements]

Optional(g) == [g EXCEPT !.optional = TRUE]

NoGaps(g) == [g EXCEPT !.allow_gaps = FALSE]

(* A meta segment class that the configuration of the parse disables. *)
Disabled(g) == [g EXCEPT !.enabled = FALSE]

is_meta(g) == g.kind \in {"Indent", "Dedent"}

is_enabled(g) == g.enabled

is_optional(g) ==
    IF g.kind \in {"AnyNumberOf", "OneOf"}
    THEN g.optional \/ g.min_times = 0
    ELSE g.optional

(* Bracketed.__init__: the bracket references chosen by `square`. *)
start_bracket(g) ==
    IF g.square THEN Ref("StartSquareBracketSegment")
    ELSE Ref("StartBracketSegment")

end_bracket(g) ==
    IF g.square THEN Ref("EndSquareBracketSegment")
    ELSE Ref("EndBracketSegment")

----------------------------------------------------------------------------
(* The dialect: a read-only registry from names to matchers.               *)

DialectNames ==
    {"StartBracketSegment", "EndBracketSegment", "StartSquareBracketSegment",
     "EndSquareBracketSegment", "AKeywordSegment", "BKeywordSegment",
     "SemicolonSegment", "CommaSegment", "PairGrammar", "NestGrammar"}

DialectRef(name) ==
    CASE name = "StartBracketSegment" -> Keyword("(")
      [] name = "EndBracketSegment" -> Keyword(")")
      [] name = "StartSquareBracketSegment" -> Keyword("[")
      [] name = "EndSquareBracketSegment" -> Keyword("]")
      [] name = "AKeywordSegment" -> Keyword("A")
      [] name = "BKeywordSegment" -> Keyword("B")
      [] name = "SemicolonSegment" -> Keyword(";")
      [] name = "CommaSegment" -> Keyword(",")
      [] name = "PairGrammar" ->
            Sequence(<<Ref("AKeywordSegment"), Ref("BKeywordSegment")>>)
      [] name = "NestGrammar" ->
            Bracketed(<<OneOf(<<Ref("AKeywordSegment"), Ref("NestGrammar")>>)>>)

----------------------------------------------------------------------------
(* simple(): the upper-case strings one of which must start any match, or  *)
(* False.  ok = FALSE is False; err marks a lookup of an unknown           *)
(* reference, which raises.                                                *)

NotSimple == [ok |-> FALSE, opts |-> <<>>, err |-> FALSE]

SimpleOpts(opts) == [ok |-> TRUE, opts |-> opts, err |-> FALSE]

SimpleRaises == [ok |-> FALSE, opts |-> <<>>, err |-> TRUE]

Truthy(s) == s.ok /\ s.opts # <<>>

RECURSIVE simple(_)

(* AnyNumberOf.simple, Delimited.simple: all elements must be simple. *)
RECURSIVE SimpleAll(_, _)
SimpleAll(elements, buff) ==
    IF elements = <<>> THEN SimpleOpts(buff)
    ELSE LET s == simple(elements[1])
         IN IF s.err THEN SimpleRaises
            ELSE IF ~Truthy(s) THEN NotSimple
            ELSE SimpleAll(Tail(elements), buff \o s.opts)

(* Sequence.simple: the elements up to the first non-optional one. *)
RECURSIVE SimpleSequence(_, _)
SimpleSequence(elements, buff) ==
    IF elements = <<>> THEN SimpleOpts(buff)
    ELSE LET s == simple(elements[1])
         IN IF s.err THEN SimpleRaises
            ELSE IF ~Truthy(s) THEN NotSimple
            ELSE IF ~is_optional(elements[1]) THEN SimpleOpts(buff \o s.opts)
            ELSE SimpleSequence(Tail(elements), buff \o s.opts)

simple(g) ==
    CASE g.kind = "Keyword" -> SimpleOpts(<<g.name>>)
      [] g.kind = "Ref" ->
            IF g.name \in DialectNames THEN simple(DialectRef(g.name))
            ELSE SimpleRaises
      [] g.kind \in {"AnyNumberOf", "OneOf", "Delimited"} ->
            SimpleAll(g.elements, <<>>)
      [] g.kind = "Sequence" -> SimpleSequence(g.elements, <<>>)
      [] g.kind = "StartsWith" -> simple(g.target[1])
      [] g.kind = "Bracketed" -> simple(start_bracket(g))
      [] OTHER -> NotSimple

----------------------------------------------------------------------------
(* The match of every grammar, defined at the end of the module: the       *)
(* combinators call it for their elements, and it calls them.  So do the   *)
(* scanners, which a combinator calls and which call Match in turn.        *)

RECURSIVE Match(_, _, _)

RECURSIVE code_only_sensitive_match(_, _, _, _)

RECURSIVE look_ahead_match(_, _, _, _)

RECURSIVE BracketStep(_, _, _, _)

RECURSIVE SequenceStep(_, _, _)

(* A keyword segment's match: the first segment, if its raw is the         *)
(* template.                                                               *)
KeywordMatch(g, segs, ctx) ==
    IF Len(segs) >= 1 /\ RawUpper(segs[1]) = g.name
    THEN MatchResult(<<segs[1]>>, Tail(segs), ctx)
    ELSE from_unmatched(segs, ctx)

----------------------------------------------------------------------------
(* BaseGrammar._code_only_sensitive_match *)

(* The match of the trimmed middle, with the trimmed bands put back. *)
CodeOnlyResult(segs, pre_ws, post_ws, allow_gaps, m) ==
    IF Raised(m) \/ ~allow_gaps THEN m
    ELSE IF is_complete(m)
    THEN from_matched(pre_ws \o m.matched \o post_ws, m.ctx)
    ELSE IF has_match(m)
    THEN MatchResult(pre_ws \o m.matched, m.unmatched \o post_ws, m.ctx)
    ELSE from_unmatched(segs, m.ctx)

(* Without gaps the match is the matcher's own; with gaps the input is    *)
(* trimmed first, and nothing but non-code is no match.                    *)
CodeOnlyTrimmed(segs, matcher, ctx, allow_gaps, t) ==
    IF allow_gaps /\ Len(t[2]) = 0 THEN from_unmatched(segs, ctx)
    ELSE CodeOnlyResult(segs, t[1], t[3], allow_gaps,
                        Match(matcher, t[2], ctx))

code_only_sensitive_match(segs, matcher, ctx, allow_gaps) ==
    CodeOnlyTrimmed(segs, matcher, ctx, allow_gaps,
                    IF allow_gaps THEN trim_non_code(segs)
                    ELSE <<<<>>, segs, <<>>>>)

----------------------------------------------------------------------------
(* BaseGrammar._longest_code_only_sensitive_match.  The result is the      *)
(* match and the index of its matcher in `matchers` (0 for None).          *)

Found(pre, m, matcher) == [pre |-> pre, m |-> m, matcher |-> matcher]

RECURSIVE LongestLoop(_, _, _, _, _, _)

(* The loop with a later partial match replacing an earlier one of the    *)
(* same length.                                                            *)
LongestNextLastOfTies(segs, matchers, i, best, allow_gaps, res_match) ==
    IF Raised(res_match) THEN Found(<<>>, res_match, 0)
    ELSE IF is_complete(res_match) THEN Found(<<>>, res_match, i)
    ELSE IF has_match(res_match)
            /\ (best.matcher = 0
                \/ Len(res_match.matched) >= Len(best.m.matched))
    THEN LongestLoop(segs, matchers, i + 1, Found(<<>>, res_match, i),
                     res_match.ctx, allow_gaps)
    ELSE LongestLoop(segs, matchers, i + 1, best, res_match.ctx, allow_gaps)

(* The partial matches are kept in `best`: the first of the longest so     *)
(* far (a later one replaces it only if strictly longer).                  *)
LongestNext(segs, matchers, i, best, allow_gaps, res_match) ==
    IF Raised(res_match) THEN Found(<<>>, res_match, 0)
    ELSE IF is_complete(res_match) THEN Found(<<>>, res_match, i)
    ELSE IF has_match(res_match)
            /\ (best.matcher = 0
                \/ Len(res_match.matched) > Len(best.m.matched))
    THEN LongestLoop(segs, matchers, i + 1, Found(<<>>, res_match, i),
                     res_match.ctx, allow_gaps)
    ELSE LongestLoop(segs, matchers, i + 1, best, res_match.ctx, allow_gaps)

LongestLoop(segs, matchers, i, best, ctx, allow_gaps) ==
    IF i > Len(matchers)
    THEN IF best.matcher # 0
         THEN Found(<<>>, [best.m EXCEPT !.ctx = ctx], best.matcher)
         ELSE Found(<<>>, from_unmatched(segs, ctx), 0)
    ELSE LongestNext(segs, matchers, i, best, allow_gaps,
                     code_only_sensitive_match(segs, matchers[i], ctx,
                                               allow_gaps))

longest_code_only_sensitive_match(segs, matchers, ctx, allow_gaps) ==
    IF Len(segs) = 0 THEN Found(<<>>, from_empty(ctx), 0)
    ELSE LongestLoop(segs, matchers, 1, Found(<<>>, from_empty(ctx), 0), ctx,
                     allow_gaps)

----------------------------------------------------------------------------
(* BaseGrammar._look_ahead_match.  The result is (pre_segments, match,     *)
(* index of the matcher in `matchers`, 0 for None).                        *)

RECURSIVE IndexOf(_, _)
IndexOf(s, x) ==         \* list.index: the 0-based place of the first x
    IF s[1] = x THEN 0 ELSE 1 + IndexOf(Tail(s), x)

InSeq(s, x) == \E i \in 1..Len(s) : s[i] = x

(* The simple() of every matcher, taken once. *)
Simples(matchers) == [i \in 1..Len(matchers) |-> simple(matchers[i])]

SimpleRaised(simples) == \E i \in 1..Len(simples) : simples[i].err

(* The queue entries of one simple matcher: one per advertised string that *)
(* occurs in the buffer, at its first occurrence.                          *)
RECURSIVE OptionEntries(_, _, _)
OptionEntries(mi, opts, str_buff) ==
    IF opts = <<>> THEN <<>>
    ELSE (IF InSeq(str_buff, opts[1])
          THEN <<[m |-> mi, pos |-> IndexOf(str_buff, opts[1])]>>
          ELSE <<>>)
         \o OptionEntries(mi, Tail(opts), str_buff)

RECURSIVE QueueEntries(_, _, _)
QueueEntries(simples, i, str_buff) ==
    IF i > Len(simples) THEN <<>>
    ELSE (IF Truthy(simples[i])
          THEN OptionEntries(i, simples[i].opts, str_buff)
          ELSE <<>>)
         \o QueueEntries(simples, i + 1, str_buff)

(* sorted(match_queue, key=pos): a stable sort. *)
RECURSIVE InsertSorted(_, _)
InsertSorted(q, e) ==
    IF q = <<>> THEN <<e>>
    ELSE IF q[Len(q)].pos <= e.pos THEN Append(q, e)
    ELSE Append(InsertSorted(Head2(q, Len(q) - 1), e), q[Len(q)])

RECURSIVE SortQueue(_)
SortQueue(q) ==
    IF q = <<>> THEN <<>>
    ELSE InsertSorted(SortQueue(Head2(q, Len(q) - 1)), q[Len(q)])

(* Pick up the non-code segments before a simple match. *)
RECURSIVE AbsorbBefore(_, _)
AbsorbBefore(pre_segments, match) ==
    IF pre_segments = <<>> \/ IsCode(pre_segments[Len(pre_segments)])
    THEN Found(pre_segments, match, 0)
    ELSE AbsorbBefore(
             Head2(pre_segments, Len(pre_segments) - 1),
             [match EXCEPT
                 !.matched = <<pre_segments[Len(pre_segments)]>> \o @])

(* ... and those after it, if they are the whole of the rest. *)
AbsorbAfter(match) ==
    IF \A i \in 1..Len(match.unmatched) : ~IsCode(match.unmatched[i])
    THEN [match EXCEPT !.matched = @ \o match.unmatched, !.unmatched = <<>>]
    ELSE match

NoBest == [found |-> FALSE, pre |-> <<>>, m |-> <<>>, matcher |-> 0]

Best(a, matcher, allow_gaps) ==
    [found |-> TRUE, pre |-> a.pre,
     m |-> IF allow_gaps THEN AbsorbAfter(a.m) ELSE a.m, matcher |-> matcher]

RECURSIVE SimpleLoop(_, _, _, _, _, _)

(* A queue entry has been tried: if it matched, with the non-code around   *)
(* it picked up, it is the best simple match from now on.                  *)
SimpleNext(segs, matchers, rest, best, allow_gaps, m_first, match) ==
    IF Raised(match) THEN [best |-> best, ctx |-> match.ctx, err |-> match]
    ELSE IF ~has_match(match)
    THEN SimpleLoop(segs, matchers, rest, best, match.ctx, allow_gaps)
    ELSE SimpleLoop(segs, matchers, rest,
                    Best(IF allow_gaps
                         THEN AbsorbBefore(Head2(segs, m_first.pos), match)
                         ELSE Found(Head2(segs, m_first.pos), match, 0),
                         m_first.m, allow_gaps),
                    match.ctx, allow_gaps)

(* while match_queue: m_first = match_queue.pop() ...  The queue is        *)
(* popped from its end; every entry is tried, and each one that matches    *)
(* replaces best_simple_match.                                             *)
SimpleLoop(segs, matchers, queue, best, ctx, allow_gaps) ==
    IF queue = <<>> THEN [best |-> best, ctx |-> ctx, err |-> from_empty(ctx)]
    ELSE SimpleNext(segs, matchers, Head2(queue, Len(queue) - 1), best,
                    allow_gaps, queue[Len(queue)],
                    Match(matchers[queue[Len(queue)].m],
                          Tail2(segs, queue[Len(queue)].pos), ctx))

RECURSIVE NonSimpleIndexes(_, _)
NonSimpleIndexes(simples, i) ==
    IF i > Len(simples) THEN <<>>
    ELSE (IF Truthy(simples[i]) THEN <<>> ELSE <<i>>)
         \o NonSimpleIndexes(simples, i + 1)

RECURSIVE SkipNonCode(_, _)
SkipNonCode(pre, buff) ==
    IF buff # <<>> /\ ~IsCode(buff[1])
    THEN SkipNonCode(Append(pre, buff[1]), Tail(buff))
    ELSE <<pre, buff>>

Advance(pre_buff, buff, allow_gaps) ==
    IF allow_gaps THEN SkipNonCode(Append(pre_buff, buff[1]), Tail(buff))
    ELSE <<Append(pre_buff, buff[1]), Tail(buff)>>

(* The winner between a non-simple match here and the best simple match. *)
NonSimpleWins(pre_len, mat_len, mat_index, best) ==
    \/ pre_len < Len(best.pre)
    \/ pre_len = Len(best.pre) /\ mat_len > Len(best.m.matched)
    \/ /\ pre_len = Len(best.pre)
       /\ mat_len = Len(best.m.matched)
       /\ mat_index < best.matcher

BestFound(best, ctx) ==
    Found(best.pre, [best.m EXCEPT !.ctx = ctx], best.matcher)

RECURSIVE NonSimpleLoop(_, _, _, _, _, _, _, _)

(* The non-simple matchers have been tried at this position. *)
NonSimpleNext(segs, matchers, ns, best, buff, pre_buff, allow_gaps, mat, m) ==
    IF Raised(mat) THEN Found(<<>>, mat, 0)
    ELSE IF has_match(mat) /\ ~best.found THEN Found(pre_buff, mat, m)
    ELSE IF has_match(mat)
    THEN IF NonSimpleWins(Len(pre_buff), Len(mat.matched), m, best)
         THEN Found(pre_buff, mat, m)
         ELSE BestFound(best, mat.ctx)
    ELSE IF best.found /\ Len(pre_buff) >= Len(best.pre)
    THEN BestFound(best, mat.ctx)
    ELSE NonSimpleLoop(segs, matchers, ns, best,
                       Advance(pre_buff, buff, allow_gaps)[2],
                       Advance(pre_buff, buff, allow_gaps)[1],
                       mat.ctx, allow_gaps)

NonSimpleTried(segs, matchers, ns, best, buff, pre_buff, allow_gaps, r) ==
    NonSimpleNext(segs, matchers, ns, best, buff, pre_buff, allow_gaps, r.m,
                  IF r.matcher = 0 THEN 0 ELSE ns[r.matcher])

(* The loop over the positions of the input, for the non-simple matchers. *)
NonSimpleLoop(segs, matchers, ns, best, buff, pre_buff, ctx, allow_gaps) ==
    IF buff = <<>> THEN Found(<<>>, from_unmatched(segs, ctx), 0)
    ELSE NonSimpleTried(segs, matchers, ns, best, buff, pre_buff, allow_gaps,
                        longest_code_only_sensitive_match(
                            buff, [k \in 1..Len(ns) |-> matchers[ns[k]]], ctx,
                            allow_gaps))

(* After the simple matchers: return their best match if there are no      *)
(* other matchers, and scan with the non-simple ones otherwise.            *)
LookAheadSlow(segs, matchers, ns, s, allow_gaps) ==
    IF Raised(s.err) THEN Found(<<>>, s.err, 0)
    ELSE IF ns = <<>>
    THEN IF s.best.found THEN BestFound(s.best, s.ctx)
         ELSE Found(<<>>, from_unmatched(segs, s.ctx), 0)
    ELSE NonSimpleLoop(segs, matchers, ns, s.best, segs, <<>>, s.ctx,
                       allow_gaps)

LookAheadFast(segs, matchers, simples, ctx, allow_gaps) ==
    IF SimpleRaised(simples)
    THEN Found(<<>>, Raise("UnknownReference", <<>>, ctx), 0)
    ELSE LookAheadSlow(
             segs, matchers, NonSimpleIndexes(simples, 1),
             SimpleLoop(segs, matchers,
                        SortQueue(
                            QueueEntries(
                                simples, 1,
                                [i \in 1..Len(segs) |-> RawUpper(segs[i])])),
                        NoBest, ctx, allow_gaps),
             allow_gaps)

look_ahead_match(segs, matchers, ctx, allow_gaps) ==
    IF Len(segs) = 0 THEN Found(<<>>, from_empty(ctx), 0)
    ELSE LookAheadFast(segs, matchers, Simples(matchers), ctx, allow_gaps)

----------------------------------------------------------------------------
(* BaseGrammar._bracket_sensitive_look_ahead_match.  One iteration of its  *)
(* loop is BracketStep: from the buffers and the bracket stack to the next *)
(* ones, with the branch taken and, if the iteration returns or raises,    *)
(* what it returns.                                                        *)

start_brackets ==
    <<DialectRef("StartBracketSegment"),
      DialectRef("StartSquareBracketSegment")>>

end_brackets ==
    <<DialectRef("EndBracketSegment"), DialectRef("EndSquareBracketSegment")>>

bracket_matchers == start_brackets \o end_brackets

ScanState(buff, pre, stack, ctx) ==
    [seg_buff |-> buff, pre_seg_buff |-> pre, bracket_stack |-> stack,
     ctx |-> ctx, branch |-> "continue", ret |-> <<>>]

Returns(st, branch, ret) ==
    [st EXCEPT !.branch = branch, !.ret = ret, !.ctx = ret.m.ctx]

(* The scan goes on after a bracket: pre_seg_buff += pre + matched,        *)
(* seg_buff = unmatched.                                                   *)
PastBracket(st, branch, found, stack) ==
    [st EXCEPT !.branch = branch,
               !.bracket_stack = stack,
               !.pre_seg_buff = @ \o found.pre \o found.m.matched,
               !.seg_buff = found.m.unmatched,
               !.ctx = found.m.ctx]

Top(stack) == <<stack[Len(stack)]>>     \* bracket_stack.pop()

(* Already in a bracket stack: look for a closing bracket, or another      *)
(* opening one.                                                            *)
BracketInsideOn(st, f) ==
    IF Raised(f.m) THEN Returns(st, "raised", f)
    ELSE IF has_match(f.m)
    THEN IF InSeq(start_brackets, bracket_matchers[f.matcher])
         THEN PastBracket(st, "push_inside", f,
                          Append(st.bracket_stack, f.m.matched[1]))
         ELSE IF InSeq(end_brackets, bracket_matchers[f.matcher])
         THEN PastBracket(st, "pop_inside", f,
                          Head2(st.bracket_stack, Len(st.bracket_stack) - 1))
         ELSE Returns(st, "lost",
                      Found(<<>>, Raise("RuntimeError", <<>>, f.m.ctx), 0))
    ELSE Returns(st, "unclosed_inside",
                 Found(<<>>,
                       Raise("UnclosedBracket", Top(st.bracket_stack),
                             f.m.ctx), 0))

BracketStepInside(segs, st, allow_gaps) ==
    BracketInsideOn(st, look_ahead_match(st.seg_buff, bracket_matchers,
                                         st.ctx, allow_gaps))

(* Not in a bracket stack: open to opening brackets and to the matchers    *)
(* looked for.                                                             *)
BracketOutsideOn(segs, matchers, st, f) ==
    IF Raised(f.m) THEN Returns(st, "raised", f)
    ELSE IF has_match(f.m)
    THEN IF InSeq(start_brackets, matchers[f.matcher])
         THEN PastBracket(st, "push_outside", f,
                          Append(st.bracket_stack, f.m.matched[1]))
         ELSE IF InSeq(end_brackets, matchers[f.matcher])
         THEN Returns(st, "unexpected_end",
                      Found(<<>>,
                            Raise("UnexpectedEndBracket", <<f.m.matched[1]>>,
                                  f.m.ctx), 0))
         ELSE Returns(st, "found",
                      Found(st.pre_seg_buff \o f.pre, f.m, f.matcher))
    ELSE Returns(st, "no_match",
                 Found(<<>>, from_unmatched(segs, f.m.ctx), 0))

BracketStepOutside(segs, matchers, st, allow_gaps) ==
    BracketOutsideOn(segs, matchers, st,
                     look_ahead_match(st.seg_buff, matchers, st.ctx,
                                      allow_gaps))

(* At the end of the buffer: have all the brackets been closed? *)
BracketStepAtEnd(segs, st) ==
    IF st.bracket_stack # <<>>
    THEN Returns(st, "unclosed_at_end",
                 Found(<<>>,
                       Raise("UnclosedBracket", Top(st.bracket_stack),
                             st.ctx), 0))
    ELSE Returns(st, "exhausted", Found(<<>>, from_unmatched(segs, st.ctx), 0))

BracketStep(segs, matchers, st, allow_gaps) ==
    IF st.seg_buff # <<>>
    THEN IF st.bracket_stack # <<>>
         THEN BracketStepInside(segs, st, allow_gaps)
         ELSE BracketStepOutside(segs, matchers, st, allow_gaps)
    ELSE BracketStepAtEnd(segs, st)

ScanGoesOn(st) == st.branch \in {"continue", "push_inside", "pop_inside",
                                 "push_outside"}

RECURSIVE BracketLoop(_, _, _, _)

BracketContinue(segs, matchers, allow_gaps, n) ==
    IF ScanGoesOn(n) THEN BracketLoop(segs, matchers, n, allow_gaps)
    ELSE n.ret

BracketLoop(segs, matchers, st, allow_gaps) ==
    BracketContinue(segs, matchers, allow_gaps,
                    BracketStep(segs, matchers, st, allow_gaps))

bracket_sensitive_look_ahead_match(segs, matchers, ctx, allow_gaps) ==
    IF Len(segs) = 0 THEN Found(<<>>, from_unmatched(segs, ctx), 0)
    ELSE BracketLoop(segs, matchers \o bracket_matchers,
                     ScanState(segs, <<>>, <<>>, ctx), allow_gaps)

----------------------------------------------------------------------------
(* Ref.match *)

Ids(segs) == [i \in 1..Len(segs) |-> segs[i].id]

(* seg_tuple = (id(seg) for seg in segments): a generator object.  As a    *)
(* member of a set or a key it is its own identity (oid), whatever it      *)
(* would yield.                                                            *)
seg_tuple(segs, ctx) == [oid |-> ctx.next_oid, yields |-> Ids(segs)]

Allocated(ctx) == [ctx EXCEPT !.next_oid = @ + 1]

(* `tried` notes every invocation of a referent, and whether it matched. *)
Tried(name, segs, resp) ==
    IF Raised(resp) THEN resp
    ELSE [resp EXCEPT
             !.ctx.tried = Append(@, [name |-> name, ids |-> Ids(segs),
                                      ok |-> has_match(resp)])]

(* A Ref that counted as a depth of match: its referent one deeper. *)
RefInvokeDeeper(g, elem, segs, ctx) ==
    Tried(g.name, segs,
          leave_deeper(
              leave_matching(Match(elem, segs,
                                   deeper_match(matching_segment(ctx, g.name))),
                             ctx.matching)))

(* The referent is matched in a scoped matching_segment, at the depth of   *)
(* the Ref.                                                                *)
RefInvoke(g, elem, segs, ctx) ==
    Tried(g.name, segs,
          leave_matching(Match(elem, segs, matching_segment(ctx, g.name)),
                         ctx.matching))

(* if not resp: parse_context.blacklist.mark(self_name, seg_tuple) *)
RefMark(self_name, key, resp) ==
    IF Raised(resp) THEN resp
    ELSE IF ~has_match(resp)
    THEN [resp EXCEPT !.ctx = blacklist_mark(@, self_name, key)]
    ELSE resp

RefCheck(g, segs, key, c1) ==
    IF blacklist_check(c1, g.name, key) THEN from_unmatched(segs, c1)
    ELSE RefMark(g.name, key, RefInvoke(g, DialectRef(g.name), segs, c1))

RefMatch(g, segs, ctx) ==
    IF g.name \notin DialectNames
    THEN Raise("UnknownReference", <<>>, ctx)
    ELSE RefCheck(g, segs, seg_tuple(segs, ctx), Allocated(ctx))

----------------------------------------------------------------------------
(* Anything.match, Nothing.match *)

AnythingMatch(g, segs, ctx) == from_matched(segs, ctx)

NothingMatch(g, segs, ctx) == from_unmatched(segs, ctx)

----------------------------------------------------------------------------
(* AnyNumberOf._prune_options, _match_once and match; OneOf.               *)

Strip(raw) == IF raw = "_" THEN "" ELSE raw      \* str.strip()

RECURSIVE FirstElem(_)
FirstElem(str_buff) ==       \* the first element that is not whitespace
    IF str_buff = <<>> THEN ""
    ELSE IF Strip(str_buff[1]) # "" THEN str_buff[1]
    ELSE FirstElem(Tail(str_buff))

(* A simple option keeps its element if it is in the buffer and, unless it *)
(* is whitespace, is the first non-whitespace element of the buffer.       *)
OptionMatches(simple_opt, str_buff) ==
    /\ InSeq(str_buff, simple_opt)
    /\ Strip(simple_opt) # "" => FirstElem(str_buff) = simple_opt

KeepOption(s, str_buff) ==
    \/ ~s.ok
    \/ \E k \in 1..Len(s.opts) : OptionMatches(s.opts[k], str_buff)

RECURSIVE SelectOptions(_, _, _)
SelectOptions(elements, simples, str_buff) ==
    IF elements = <<>> THEN <<>>
    ELSE (IF KeepOption(simples[1], str_buff) THEN <<elements[1]>> ELSE <<>>)
         \o SelectOptions(Tail(elements), Tail(simples), str_buff)

prune_options(g, simples, segs) ==
    SelectOptions(g.elements, simples,
                  [i \in 1..Len(segs) |-> RawUpper(segs[i])])

RECURSIVE MatchOnceLoop(_, _, _, _, _)

(* A single attempt in which a later partial match of the same length      *)
(* replaced the one retained.                                              *)
MatchOnceNextLast(rest, segs, has_best, best_match, m) ==
    IF Raised(m) THEN m
    ELSE IF is_complete(m) THEN m
    ELSE IF has_match(m)
            /\ (~has_best \/ RawLen(m.matched) >= RawLen(best_match.matched))
    THEN MatchOnceLoop(rest, segs, TRUE, m, m.ctx)
    ELSE MatchOnceLoop(rest, segs, has_best, best_match, m.ctx)

(* An option has been tried: the first complete match is returned;         *)
(* otherwise the first of the partial matches with the longest raw is      *)
(* kept.                                                                   *)
MatchOnceNext(rest, segs, has_best, best_match, m) ==
    IF Raised(m) THEN m
    ELSE IF is_complete(m) THEN m
    ELSE IF has_match(m)
            /\ (~has_best \/ RawLen(m.matched) > RawLen(best_match.matched))
    THEN MatchOnceLoop(rest, segs, TRUE, m, m.ctx)
    ELSE MatchOnceLoop(rest, segs, has_best, best_match, m.ctx)

(* for opt in available_options *)
MatchOnceLoop(options, segs, has_best, best_match, ctx) ==
    IF options = <<>>
    THEN IF has_best THEN [best_match EXCEPT !.ctx = ctx]
         ELSE from_unmatched(segs, ctx)
    ELSE MatchOnceNext(Tail(options), segs, has_best, best_match,
                       leave_deeper(Match(options[1], segs,
                                          deeper_match(ctx))))

MatchOncePruned(available_options, segs, ctx) ==
    IF available_options = <<>> THEN from_unmatched(segs, ctx)
    ELSE MatchOnceLoop(available_options, segs, FALSE, from_empty(ctx), ctx)

MatchOnceSimples(g, simples, segs, ctx) ==
    IF SimpleRaised(simples) THEN Raise("UnknownReference", <<>>, ctx)
    ELSE MatchOncePruned(prune_options(g, simples, segs), segs, ctx)

match_once(g, segs, ctx) == MatchOnceSimples(g, Simples(g.elements), segs, ctx)

(* if self.max_times and n_matches >= self.max_times *)
MaxTimesReached(g, n_matches) ==
    /\ g.max_times # <<>>
    /\ g.max_times[1] # 0
    /\ n_matches >= g.max_times[1]

(* The hurdle of min_times was not met. *)
AnyNumberOfFails(segs, unmatched, ctx) == from_unmatched(unmatched, ctx)

RECURSIVE AnyNumberOfLoop(_, _, _, _, _, _)

AnyNumberOfNext(g, segs, matched, pre_seg, rest, n_matches, match) ==
    IF Raised(match) THEN match
    ELSE IF has_match(match)
    THEN AnyNumberOfLoop(g, segs, matched \o pre_seg \o match.matched,
                         match.unmatched, n_matches + 1, match.ctx)
    ELSE IF n_matches >= g.min_times
    THEN MatchResult(matched, pre_seg \o rest, match.ctx)
    ELSE AnyNumberOfFails(segs, rest, match.ctx)

AnyNumberOfOnce(g, segs, matched, pre_seg, rest, n_matches, ctx) ==
    AnyNumberOfNext(g, segs, matched, pre_seg, rest, n_matches,
                    match_once(g, rest, ctx))

AnyNumberOfLoop(g, segs, matched, unmatched, n_matches, ctx) ==
    IF MaxTimesReached(g, n_matches)
    THEN MatchResult(matched, unmatched, ctx)
    ELSE IF Len(unmatched) = 0
    THEN IF n_matches >= g.min_times
         THEN MatchResult(matched, unmatched, ctx)
         ELSE AnyNumberOfFails(segs, unmatched, ctx)
    ELSE AnyNumberOfOnce(g, segs, matched,
                         IF n_matches > 0 /\ g.allow_gaps
                         THEN trim_non_code(unmatched)[1] ELSE <<>>,
                         IF n_matches > 0 /\ g.allow_gaps
                         THEN trim_non_code(unmatched)[2]
                                  \o trim_non_code(unmatched)[3]
                         ELSE unmatched,
                         n_matches, ctx)

(* if self.exclude.match(segments, parse_context=ctx): return unmatched *)
AnyNumberOfExcluded(g, segs, ex) ==
    IF Raised(ex) THEN ex
    ELSE IF has_match(ex) THEN from_unmatched(segs, ex.ctx)
    ELSE AnyNumberOfLoop(g, segs, <<>>, segs, 0, ex.ctx)

AnyNumberOfMatch(g, segs, ctx) ==
    AnyNumberOfExcluded(g, segs,
                        IF g.exclude # <<>>
                        THEN leave_deeper(Match(g.exclude[1], segs,
                                                deeper_match(ctx)))
                        ELSE from_unmatched(segs, ctx))

----------------------------------------------------------------------------
(* GreedyUntil.greedy_match and match; StartsWith.match.                   *)

IsWhitespace(seg) == seg.type \in {"whitespace", "newline"}

(* Does the match include some whitespace already?  Work forward. *)
RECURSIVE StartsWithWhitespace(_)
StartsWithWhitespace(matched) ==
    IF IsMeta(matched[1]) THEN StartsWithWhitespace(Tail(matched))
    ELSE IsWhitespace(matched[1])

(* Work backward through the preceding segments. *)
RECURSIVE EndsWithWhitespace(_)
EndsWithWhitespace(pre) ==
    IF pre = <<>> THEN TRUE
    ELSE IF IsMeta(pre[Len(pre)])
    THEN EndsWithWhitespace(Head2(pre, Len(pre) - 1))
    ELSE IsWhitespace(pre[Len(pre)])

TerminatorAllowed(pre, mat) ==
    StartsWithWhitespace(mat.matched) \/ EndsWithWhitespace(pre)

(* A terminator that is not allowed is consumed: the buffers are updated   *)
(* and the scan goes on.                                                   *)
BankRejected(seg_bank, pre, mat) == pre \o mat.matched

(* The match that claims the non-code before the terminator. *)
GreedyUpToUntrimmed(t, mat) ==
    MatchResult(t[1] \o t[2] \o t[3], all_segments(mat), mat.ctx)

(* We can't claim any non-code segments, so we trim them off the end. *)
GreedyUpTo(t, mat) ==
    MatchResult(t[1] \o t[2], t[3] \o all_segments(mat), mat.ctx)

RECURSIVE GreedyLoop(_, _, _, _, _, _, _, _)

GreedyFound(segs, seg_bank, matchers, allow_gaps, enforce, include_terminator, pre, mat) ==
    IF Raised(mat) THEN mat
    ELSE IF has_match(mat)
    THEN IF enforce /\ ~TerminatorAllowed(pre, mat)
         THEN GreedyLoop(segs, mat.unmatched, BankRejected(seg_bank, pre, mat),
                         mat.ctx, matchers, allow_gaps, enforce,
                         include_terminator)
         ELSE IF include_terminator
         THEN MatchResult(seg_bank \o pre \o mat.matched, mat.unmatched,
                          mat.ctx)
         ELSE GreedyUpTo(trim_non_code(seg_bank \o pre), mat)
    ELSE from_matched(segs, mat.ctx)

GreedyLooked(segs, seg_bank, matchers, allow_gaps, enforce, include_terminator, f) ==
    GreedyFound(segs, seg_bank, matchers, allow_gaps, enforce,
                include_terminator, f.pre, leave_deeper(f.m))

GreedyLoop(segs, buff, seg_bank, ctx, matchers, allow_gaps, enforce, include_terminator) ==
    GreedyLooked(segs, seg_bank, matchers, allow_gaps, enforce,
                 include_terminator,
                 bracket_sensitive_look_ahead_match(buff, matchers,
                                                    deeper_match(ctx),
                                                    allow_gaps))

(* `no_terminator` is matchers == [None]. *)
greedy_match(segs, ctx, matchers, no_terminator, allow_gaps, enforce, include_terminator) ==
    IF no_terminator THEN from_matched(segs, ctx)
    ELSE GreedyLoop(segs, segs, <<>>, ctx, matchers, allow_gaps, enforce,
                    include_terminator)

GreedyUntilMatch(g, segs, ctx) ==
    greedy_match(segs, ctx, g.elements, FALSE, g.allow_gaps,
                 g.enforce_whitespace_preceeding_terminator, FALSE)

(* The target matched: the rest is matched greedily up to the terminator. *)
StartsWithCombined(match, greedy) ==
    IF Raised(greedy) THEN greedy
    ELSE MatchResult(match.matched \o greedy.matched, greedy.unmatched,
                     greedy.ctx)

StartsWithTarget(g, segs, match) ==
    IF Raised(match) THEN match
    ELSE IF has_match(match)
    THEN StartsWithCombined(
             match,
             greedy_match(match.unmatched, match.ctx, g.terminator,
                          g.terminator = <<>>, g.allow_gaps,
                          g.enforce_whitespace_preceeding_terminator,
                          g.include_terminator))
    ELSE from_unmatched(segs, match.ctx)

StartsWithMatch(g, segs, ctx) ==
    IF g.allow_gaps
    THEN IF LeadingNonCode(segs) = Len(segs) THEN from_unmatched(segs, ctx)
         ELSE StartsWithTarget(
                  g, segs,
                  leave_deeper(Match(g.target[1],
                                     Tail2(segs, LeadingNonCode(segs)),
                                     deeper_match(ctx))))
    ELSE Raise("NotImplementedError", <<>>, ctx)

----------------------------------------------------------------------------
(* Sequence.match.  One element of its loop is SequenceStep: from the      *)
(* element index, the matched accumulator and the unmatched rest to the    *)
(* next ones, with the branch taken and, if the step returns or raises,    *)
(* the outcome.                                                            *)

SeqState(i, matched, unmatched, ctx) ==
    [idx |-> i, matched |-> matched, unmatched |-> unmatched, ctx |-> ctx,
     branch |-> "start", ret |-> <<>>]

SeqReturns(st, branch, ret) ==
    [st EXCEPT !.branch = branch, !.ret = ret, !.ctx = ret.ctx]

SeqNext(st, branch, matched, unmatched, ctx) ==
    [st EXCEPT !.branch = branch, !.idx = @ + 1, !.matched = matched,
               !.unmatched = unmatched, !.ctx = ctx]

MetaOf(elem) == MetaSeg(IF elem.kind = "Indent" THEN "indent" ELSE "dedent")

(* The enabled meta elements that remain. *)
RECURSIVE RemainingMeta(_)
RemainingMeta(elements) ==
    IF elements = <<>> THEN <<>>
    ELSE (IF is_meta(elements[1]) /\ is_enabled(elements[1])
          THEN <<MetaOf(elements[1])>> ELSE <<>>)
         \o RemainingMeta(Tail(elements))

OnlyOptionalRemain(elements) ==
    \A k \in 1..Len(elements) :
        is_optional(elements[k]) \/ is_meta(elements[k])

(* An indent or a dedent: its position is taken from the end of the last   *)
(* matched segment, or from the start of the next unmatched one.           *)
SequenceMetaStep(elem, st) ==
    IF ~is_enabled(elem)
    THEN SeqNext(st, "meta_disabled", st.matched, st.unmatched, st.ctx)
    ELSE IF st.matched # <<>> \/ st.unmatched # <<>>
    THEN SeqNext(st, "meta", Append(st.matched, MetaOf(elem)), st.unmatched,
                 st.ctx)
    ELSE SeqReturns(st, "meta_error", Raise("IndexError", <<>>, st.ctx))

(* We have run out of sequence without matching everything. *)
SequenceRunOut(g, segs, st) ==
    IF OnlyOptionalRemain(Tail2(g.elements, st.idx - 1))
    THEN IF st.matched # <<>>
         THEN SeqReturns(st, "run_out_ok",
                         MatchResult(
                             st.matched
                                 \o RemainingMeta(Tail2(g.elements, st.idx - 1)),
                             <<>>, st.ctx))
         ELSE SeqReturns(st, "run_out_error",
                         Raise("IndexError", <<>>, st.ctx))
    ELSE SeqReturns(st, "run_out_fail", from_unmatched(segs, st.ctx))

(* A Sequence that kept what it had matched when a required element       *)
(* failed.                                                                 *)
SequenceNoMatchPartial(elem, segs, st, ctx) ==
    IF is_optional(elem)
    THEN SeqNext(st, "skipped", st.matched, st.unmatched, ctx)
    ELSE SeqReturns(st, "failed", MatchResult(st.matched, st.unmatched, ctx))

(* The element did not match. *)
SequenceNoMatch(elem, segs, st, ctx) ==
    IF is_optional(elem)
    THEN SeqNext(st, "skipped", st.matched, st.unmatched, ctx)
    ELSE SeqReturns(st, "failed", from_unmatched(segs, ctx))

(* The element matched: a sense check that nothing has been dropped. *)
SequenceMatched(segs, st, matched, unmatched, ctx) ==
    IF check_still_complete(segs, matched, unmatched)
    THEN SeqNext(st, "matched", matched, unmatched, ctx)
    ELSE SeqReturns(st, "dropped", Raise("RuntimeError", <<>>, ctx))

SequenceElemOn(elem, segs, st, pre_nc, post_nc, elem_match) ==
    IF Raised(elem_match) THEN SeqReturns(st, "raised", elem_match)
    ELSE IF has_match(elem_match)
    THEN SequenceMatched(segs, st, st.matched \o pre_nc \o elem_match.matched,
                         elem_match.unmatched \o post_nc, elem_match.ctx)
    ELSE SequenceNoMatch(elem, segs, st, elem_match.ctx)

SequenceTrimmed(g, elem, segs, st, pre_nc, mid_seg, post_nc) ==
    IF Len(pre_nc \o mid_seg \o post_nc) = 0
    THEN SequenceRunOut(g, segs, st)
    ELSE SequenceElemOn(elem, segs, st, pre_nc, post_nc,
                        leave_deeper(Match(elem, mid_seg,
                                           deeper_match(st.ctx))))

SequenceElemStep(g, elem, segs, st) ==
    SequenceTrimmed(g, elem, segs, st,
                    IF g.allow_gaps THEN trim_non_code(st.unmatched)[1]
                    ELSE <<>>,
                    IF g.allow_gaps THEN trim_non_code(st.unmatched)[2]
                    ELSE st.unmatched,
                    IF g.allow_gaps THEN trim_non_code(st.unmatched)[3]
                    ELSE <<>>)

SequenceStep(g, segs, st) ==
    IF is_meta(g.elements[st.idx])
    THEN SequenceMetaStep(g.elements[st.idx], st)
    ELSE SequenceElemStep(g, g.elements[st.idx], segs, st)

SeqGoesOn(st) ==
    st.branch \in {"start", "meta_disabled", "meta", "matched", "skipped"}

(* All the elements were matched or skipped: the leftovers are unmatched. *)
SequenceEnd(st) == MatchResult(st.matched, st.unmatched, st.ctx)

RECURSIVE SequenceLoop(_, _, _)

SequenceContinue(g, segs, n) ==
    IF SeqGoesOn(n) THEN SequenceLoop(g, segs, n) ELSE n.ret

SequenceLoop(g, segs, st) ==
    IF st.idx > Len(g.elements) THEN SequenceEnd(st)
    ELSE SequenceContinue(g, segs, SequenceStep(g, segs, st))

SequenceMatch(g, segs, ctx) ==
    SequenceLoop(g, segs, SeqState(1, <<>>, segs, ctx))

----------------------------------------------------------------------------
(* Delimited.match *)

(* The test of min_delimiters that lets one delimiter fewer pass. *)
TooFewDelimitersButOne(g, n_delimiters) ==
    /\ g.min_delimiters # <<>>
    /\ g.min_delimiters[1] # 0
    /\ n_delimiters + 1 < g.min_delimiters[1]

(* if self.min_delimiters and len(delimiters) < self.min_delimiters *)
TooFewDelimiters(g, n_delimiters) ==
    /\ g.min_delimiters # <<>>
    /\ g.min_delimiters[1] # 0
    /\ n_delimiters < g.min_delimiters[1]

RECURSIVE DelimitedContent(_, _, _, _)

DelimitedTried(rest, content, allow_gaps, elem_match) ==
    IF Raised(elem_match) \/ is_complete(elem_match)
    THEN [found |-> TRUE, m |-> elem_match]
    ELSE DelimitedContent(rest, content, elem_match.ctx, allow_gaps)

(* for elem in self._elements: the first element that matches the content  *)
(* completely.                                                             *)
DelimitedContent(elements, content, ctx, allow_gaps) ==
    IF elements = <<>>
    THEN [found |-> FALSE, m |-> from_unmatched(content, ctx)]
    ELSE DelimitedTried(
             Tail(elements), content, allow_gaps,
             leave_deeper(
                 code_only_sensitive_match(content, elements[1],
                                           deeper_match(ctx), allow_gaps)))

(* The trailing case allowed without looking at min_delimiters. *)
DelimitedTrailingUncounted(g, segs, matched, n_delimiters, ctx) ==
    IF g.allow_trailing
    THEN from_matched(matched, ctx)
    ELSE from_unmatched(segs, ctx)

(* The buffer is exhausted: this is potentially a trailing case. *)
DelimitedTrailing(g, segs, matched, n_delimiters, ctx) ==
    IF g.allow_trailing
       /\ (g.min_delimiters = <<>> \/ n_delimiters >= g.min_delimiters[1])
    THEN from_matched(matched, ctx)
    ELSE from_unmatched(segs, ctx)

(* The match of what is left after the last delimiter. *)
DelimitedEnd(g, segs, matched, pre_term_nc, rest, post_term_nc, mat) ==
    IF Raised(mat) THEN mat
    ELSE IF has_match(mat)
    THEN IF mat.unmatched # <<>>
         THEN MatchResult(matched \o pre_term_nc \o mat.matched,
                          mat.unmatched \o post_term_nc, mat.ctx)
         ELSE from_matched(
                  matched \o pre_term_nc \o mat.matched \o post_term_nc,
                  mat.ctx)
    ELSE IF g.allow_trailing
    THEN MatchResult(matched, pre_term_nc \o rest \o post_term_nc, mat.ctx)
    ELSE from_unmatched(segs, mat.ctx)

DelimitedLastOn(g, segs, matched, pre_term_nc, rest, post_term_nc, ctx) ==
    DelimitedEnd(g, segs, matched, pre_term_nc, rest, post_term_nc,
                 leave_deeper(
                     longest_code_only_sensitive_match(
                         rest, g.elements, deeper_match(ctx),
                         g.allow_gaps).m))

(* No delimiter looking forward: we are at the end. *)
DelimitedLast(g, segs, buff, matched, n_delimiters, ctx) ==
    IF TooFewDelimiters(g, n_delimiters) THEN from_unmatched(segs, ctx)
    ELSE DelimitedLastOn(g, segs, matched,
                         IF g.allow_gaps THEN trim_non_code(buff)[1] ELSE <<>>,
                         IF g.allow_gaps THEN trim_non_code(buff)[2] ELSE buff,
                         IF g.allow_gaps THEN trim_non_code(buff)[3] ELSE <<>>,
                         ctx)

RECURSIVE DelimitedLoop(_, _, _, _, _, _)

(* The section before the delimiter or terminator has been tried against   *)
(* the elements.  `m` is the place of the matcher found: 1 the delimiter,  *)
(* 2 the terminator.                                                       *)
(* The split in which the terminator found is added to the match. *)
DelimitedSplitTakesTerminator(g, segs, buff, matched, n, pre_content_len, pre_nc, post_nc, delimiter_match, m, e) ==
    IF ~e.found THEN from_unmatched(segs, e.m.ctx)
    ELSE IF Raised(e.m) THEN e.m
    ELSE IF m = 1
    THEN DelimitedLoop(g, segs, delimiter_match.unmatched,
                       matched \o pre_nc \o e.m.matched \o post_nc
                           \o delimiter_match.matched,
                       n, e.m.ctx)
    ELSE IF m = 2
    THEN IF TooFewDelimiters(g, n) THEN from_unmatched(segs, e.m.ctx)
         ELSE MatchResult(matched \o pre_nc \o e.m.matched \o post_nc
                              \o delimiter_match.matched,
                          delimiter_match.unmatched, e.m.ctx)
    ELSE Raise("RuntimeError", <<>>, e.m.ctx)

(* The split in which the delimiter found is not added to the match. *)
DelimitedSplitDropsDelimiter(g, segs, buff, matched, n, pre_content_len, pre_nc, post_nc, delimiter_match, m, e) ==
    IF ~e.found THEN from_unmatched(segs, e.m.ctx)
    ELSE IF Raised(e.m) THEN e.m
    ELSE IF m = 1
    THEN DelimitedLoop(g, segs, delimiter_match.unmatched,
                       matched \o pre_nc \o e.m.matched \o post_nc,
                       n, e.m.ctx)
    ELSE IF m = 2
    THEN IF TooFewDelimiters(g, n) THEN from_unmatched(segs, e.m.ctx)
         ELSE MatchResult(matched \o pre_nc \o e.m.matched \o post_nc,
                          Tail2(buff, pre_content_len), e.m.ctx)
    ELSE Raise("RuntimeError", <<>>, e.m.ctx)

DelimitedSplit(g, segs, buff, matched, n, pre_content_len, pre_nc, post_nc, delimiter_match, m, e) ==
    IF ~e.found THEN from_unmatched(segs, e.m.ctx)
    ELSE IF Raised(e.m) THEN e.m
    ELSE IF m = 1
    THEN DelimitedLoop(g, segs, delimiter_match.unmatched,
                       matched \o pre_nc \o e.m.matched \o post_nc
                           \o delimiter_match.matched,
                       n, e.m.ctx)
    ELSE IF m = 2
    THEN IF TooFewDelimiters(g, n) THEN from_unmatched(segs, e.m.ctx)
         ELSE MatchResult(matched \o pre_nc \o e.m.matched \o post_nc,
                          Tail2(buff, pre_content_len), e.m.ctx)
    ELSE Raise("RuntimeError", <<>>, e.m.ctx)

DelimitedSection(g, segs, buff, matched, n, pre_content_len, pre_nc, pre_content, post_nc, delimiter_match, m) ==
    IF Len(pre_content) = 0 THEN from_unmatched(segs, delimiter_match.ctx)
    ELSE DelimitedSplit(g, segs, buff, matched, n, pre_content_len, pre_nc,
                        post_nc, delimiter_match, m,
                        DelimitedContent(g.elements, pre_content,
                                         delimiter_match.ctx, g.allow_gaps))

DelimitedFound(g, segs, buff, matched, n_delimiters, pre, delimiter_match, m) ==
    IF Raised(delimiter_match) THEN delimiter_match
    ELSE IF ~has_match(delimiter_match)
    THEN DelimitedLast(g, segs, buff, matched, n_delimiters,
                       delimiter_match.ctx)
    ELSE DelimitedSection(g, segs, buff, matched,
                          IF m = 1 THEN n_delimiters + 1 ELSE n_delimiters,
                          Len(pre),
                          IF g.allow_gaps THEN trim_non_code(pre)[1] ELSE <<>>,
                          IF g.allow_gaps THEN trim_non_code(pre)[2] ELSE pre,
                          IF g.allow_gaps THEN trim_non_code(pre)[3] ELSE <<>>,
                          delimiter_match, m)

DelimitedLooked(g, segs, buff, matched, n_delimiters, f) ==
    DelimitedFound(g, segs, buff, matched, n_delimiters, f.pre,
                   leave_deeper(f.m), f.matcher)

DelimitedLoop(g, segs, buff, matched, n_delimiters, ctx) ==
    IF Len(buff) = 0
    THEN DelimitedTrailing(g, segs, matched, n_delimiters, ctx)
    ELSE DelimitedLooked(g, segs, buff, matched, n_delimiters,
                         bracket_sensitive_look_ahead_match(
                             buff, g.delimiter \o g.terminator,
                             deeper_match(ctx), FALSE))

DelimitedMatch(g, segs, ctx) ==
    IF Len(segs) = 0 THEN from_empty(ctx)
    ELSE DelimitedLoop(g, segs, segs, <<>>, 0, ctx)

----------------------------------------------------------------------------
(* Bracketed.match *)

AllOptional(elements) ==
    \A k \in 1..Len(elements) : is_optional(elements[k])

(* Look for the closing bracket. *)
BracketedPartner(g, buff, ctx) ==
    bracket_sensitive_look_ahead_match(buff, <<end_bracket(g)>>, ctx,
                                       g.allow_gaps)

(* match_wrapper around super().match *)
LoggedSuper(inner) ==
    [inner EXCEPT !.log = @ \cup {<<"Bracketed", "Sequence", 1>>},
                  !.frame = <<"Sequence", inner.depth>>]

(* Match the content using super: Sequence.match, through match_wrapper. *)
BracketedContent(g, content_segs, ctx) ==
    [leave_deeper(SequenceMatch(g, content_segs,
                                LoggedSuper(deeper_match(ctx))))
        EXCEPT !.ctx.frame = ctx.frame]

(* The wrap that takes a match of part of the content. *)
BracketedWrapPartial(segs, start_match, end_match, pre_nc, post_nc, content_match) ==
    IF Raised(content_match) THEN content_match
    ELSE IF has_match(content_match)
    THEN MatchResult(
             start_match.matched \o pre_nc \o <<MetaSeg("indent")>>
                 \o content_match.matched \o <<MetaSeg("dedent")>>
                 \o post_nc \o end_match.matched,
             end_match.unmatched, content_match.ctx)
    ELSE from_unmatched(segs, content_match.ctx)

(* The wrap that puts the Indent before the leading non-code. *)
BracketedWrapIndentFirst(segs, start_match, end_match, pre_nc, post_nc, content_match) ==
    IF Raised(content_match) THEN content_match
    ELSE IF is_complete(content_match)
    THEN IF content_match.matched = <<>>
         THEN Raise("IndexError", <<>>, content_match.ctx)
         ELSE MatchResult(
                  start_match.matched \o <<MetaSeg("indent")>> \o pre_nc
                      \o content_match.matched \o <<MetaSeg("dedent")>>
                      \o post_nc \o end_match.matched,
                  end_match.unmatched, content_match.ctx)
    ELSE from_unmatched(segs, content_match.ctx)

(* We require a complete match for the content. *)
BracketedWrap(segs, start_match, end_match, pre_nc, post_nc, content_match) ==
    IF Raised(content_match) THEN content_match
    ELSE IF is_complete(content_match)
    THEN IF content_match.matched = <<>>
         THEN Raise("IndexError", <<>>, content_match.ctx)
         ELSE MatchResult(
                  start_match.matched \o pre_nc \o <<MetaSeg("indent")>>
                      \o content_match.matched \o <<MetaSeg("dedent")>>
                      \o post_nc \o end_match.matched,
                  end_match.unmatched, content_match.ctx)
    ELSE from_unmatched(segs, content_match.ctx)

(* Trimmed of whitespace: the case of no code content, e.g. "(   )". *)
BracketedInner(g, segs, start_match, end_match, pre_nc, content_segs, post_nc) ==
    IF content_segs = <<>>
    THEN IF g.elements = <<>> \/ (AllOptional(g.elements) /\ g.allow_gaps)
         THEN MatchResult(
                  start_match.matched \o pre_nc \o post_nc
                      \o end_match.matched,
                  end_match.unmatched, end_match.ctx)
         ELSE from_unmatched(segs, end_match.ctx)
    ELSE BracketedWrap(segs, start_match, end_match, pre_nc, post_nc,
                       BracketedContent(g, content_segs, end_match.ctx))

BracketedClosed(g, segs, start_match, content_segs, end_match) ==
    IF Raised(end_match) THEN end_match
    ELSE IF ~has_match(end_match)
    THEN Raise("UnclosedBracket", <<>>, end_match.ctx)
    ELSE IF content_segs = <<>>
    THEN IF g.elements = <<>> \/ AllOptional(g.elements)
         THEN MatchResult(start_match.matched \o end_match.matched,
                          end_match.unmatched, end_match.ctx)
         ELSE from_unmatched(segs, end_match.ctx)
    ELSE BracketedInner(g, segs, start_match, end_match,
                        IF g.allow_gaps THEN trim_non_code(content_segs)[1]
                        ELSE <<>>,
                        IF g.allow_gaps THEN trim_non_code(content_segs)[2]
                        ELSE content_segs,
                        IF g.allow_gaps THEN trim_non_code(content_segs)[3]
                        ELSE <<>>)

BracketedLooked(g, segs, start_match, f) ==
    BracketedClosed(g, segs, start_match, f.pre, f.m)

BracketedOpened(g, segs, start_match) ==
    IF Raised(start_match) THEN start_match
    ELSE IF ~has_match(start_match)
    THEN from_unmatched(segs, start_match.ctx)
    ELSE BracketedLooked(g, segs, start_match,
                         BracketedPartner(g, start_match.unmatched,
                                          start_match.ctx))

BracketedMatch(g, segs, ctx) ==
    BracketedOpened(g, segs,
                    leave_deeper(
                        code_only_sensitive_match(segs, start_bracket(g),
                                                  deeper_match(ctx),
                                                  g.allow_gaps)))

----------------------------------------------------------------------------
(* The match of a grammar, as match_wrapper wraps it: the call is logged   *)
(* with the depth it runs at, relative to the depth of the match that      *)
(* made it, and the method of the grammar's class is run.                  *)

Logged(g, ctx) ==
    [ctx EXCEPT !.log = @ \cup {<<ctx.frame[1], g.kind,
                                  ctx.depth - ctx.frame[2]>>},
                !.frame = <<g.kind, ctx.depth>>]

MatchMethod(g, segs, ctx) ==
    CASE g.kind = "Keyword" -> KeywordMatch(g, segs, ctx)
      [] g.kind = "Ref" -> RefMatch(g, segs, ctx)
      [] g.kind = "Anything" -> AnythingMatch(g, segs, ctx)
      [] g.kind = "Nothing" -> NothingMatch(g, segs, ctx)
      [] g.kind \in {"AnyNumberOf", "OneOf"} -> AnyNumberOfMatch(g, segs, ctx)
      [] g.kind = "GreedyUntil" -> GreedyUntilMatch(g, segs, ctx)
      [] g.kind = "StartsWith" -> StartsWithMatch(g, segs, ctx)
      [] g.kind = "Sequence" -> SequenceMatch(g, segs, ctx)
      [] g.kind = "Delimited" -> DelimitedMatch(g, segs, ctx)
      [] g.kind = "Bracketed" -> BracketedMatch(g, segs, ctx)
      [] OTHER -> Raise("NotImplementedError", <<>>, ctx)

Match(g, segs, ctx) ==
    [MatchMethod(g, segs, Logged(g, ctx)) EXCEPT !.ctx.frame = ctx.frame]

----------------------------------------------------------------------------
(* The inputs and the grammars of the model.                               *)

Raws == {"A", "B", ";", "(", ")", "_"}

Tuples(S, n) == UNION {[1..k -> S] : k \in 0..n}

Inputs == {Lex(raws) : raws \in Tuples(Raws, MaxLen)}

A == Ref("AKeywordSegment")

B == Ref("BKeywordSegment")

Semicolon == Ref("SemicolonSegment")

Enforcing(g) == [g EXCEPT !.enforce_whitespace_preceeding_terminator = TRUE]

RefGrammars ==
    {A, Ref("PairGrammar"), Ref("NestGrammar"), Ref("MissingSegment")}

AnyNumberOfGrammars ==
    {AnyNumberOf(<<A, B>>, 0, <<>>),
     AnyNumberOf(<<A>>, 2, <<>>),
     AnyNumberOf(<<A, B>>, 1, <<2>>),
     AnyNumberOf(<<A, B>>, 0, <<0>>),
     NoGaps(AnyNumberOf(<<A, B>>, 0, <<>>)),
     [AnyNumberOf(<<A, B>>, 0, <<>>) EXCEPT !.exclude = <<B>>]}

OneOfGrammars ==
    {OneOf(<<A, B>>),
     OneOf(<<A, Ref("PairGrammar")>>),
     OneOf(<<Anything, A>>),
     OneOf(<<Sequence(<<A, Dedent>>), A>>),
     OneOf(<<A, Sequence(<<A, Dedent>>)>>),
     OneOf(<<AnyNumberOf(<<A>>, 2, <<>>), A>>),
     OneOf(<<Sequence(<<A, Optional(B)>>), Bracketed(<<A>>)>>)}

SequenceGrammars ==
    {Sequence(<<A, B>>),
     Sequence(<<A, Optional(B)>>),
     Sequence(<<Optional(A), B>>),
     Sequence(<<Optional(A), Optional(B)>>),
     Sequence(<<Indent, A, Dedent>>),
     Sequence(<<Disabled(Indent), A>>),
     Sequence(<<A, Sequence(<<Optional(B)>>)>>),
     Sequence(<<A, Ref("MissingSegment")>>),
     Sequence(<<A, Optional(B), Semicolon>>),
     NoGaps(Sequence(<<A, B>>)),
     NoGaps(Sequence(<<StartsWith(A)>>))}

DelimitedGrammars ==
    {Delimited(<<A>>, Semicolon),
     [Delimited(<<A, B>>, Semicolon) EXCEPT !.allow_trailing = TRUE],
     [Delimited(<<A>>, Semicolon) EXCEPT !.terminator = <<B>>],
     [Delimited(<<A>>, Semicolon) EXCEPT !.min_delimiters = <<1>>],
     [Delimited(<<A>>, Semicolon) EXCEPT !.terminator = <<B>>,
                                         !.min_delimiters = <<1>>],
     [Delimited(<<A>>, Semicolon) EXCEPT !.allow_trailing = TRUE,
                                         !.min_delimiters = <<2>>],
     NoGaps(Delimited(<<A>>, Semicolon))}

GreedyUntilGrammars ==
    {GreedyUntil(<<Semicolon>>),
     GreedyUntil(<<Semicolon, B>>),
     Enforcing(GreedyUntil(<<Semicolon>>)),
     NoGaps(GreedyUntil(<<Semicolon>>))}

StartsWithGrammars ==
    {StartsWith(A),
     [StartsWith(A) EXCEPT !.terminator = <<Semicolon>>],
     [StartsWith(A) EXCEPT !.terminator = <<Semicolon>>,
                           !.include_terminator = TRUE],
     NoGaps(StartsWith(A))}

BracketedGrammars ==
    {Bracketed(<<A>>),
     Bracketed(<<Optional(A)>>),
     Bracketed(<<>>),
     Bracketed(<<GreedyUntil(<<Semicolon>>)>>),
     NoGaps(Bracketed(<<A>>))}

----------------------------------------------------------------------------
(* The parse: an input is lexed, and the match of a grammar is called on   *)
(* it with a new parse context.                                            *)

NoResult == from_empty(NewContext)

Idle ==
    /\ grammar = Nothing
    /\ result = NoResult
    /\ context = NewContext
    /\ calls = 0
    /\ seg_buff = <<>>
    /\ pre_seg_buff = <<>>
    /\ bracket_stack = <<>>
    /\ matched_segments = <<>>
    /\ idx = 0

Init ==
    /\ segments \in Inputs
    /\ pc = "idle"
    /\ Idle

Call(g) ==
    /\ grammar' = g
    /\ result' = Match(g, segments, NewContext)
    /\ context' = result'.ctx
    /\ calls' = calls + 1
    /\ pc' = "done"
    /\ UNCHANGED <<segments, seg_buff, pre_seg_buff, bracket_stack,
                   matched_segments, idx>>

MatchRef == \E g \in RefGrammars : pc = "idle" /\ Call(g)

MatchAnything == pc = "idle" /\ Call(Anything)

MatchNothing == pc = "idle" /\ Call(Nothing)

MatchAnyNumberOf == \E g \in AnyNumberOfGrammars : pc = "idle" /\ Call(g)

MatchOneOf == \E g \in OneOfGrammars : pc = "idle" /\ Call(g)

MatchGreedyUntil == \E g \in GreedyUntilGrammars : pc = "idle" /\ Call(g)

MatchSequence == \E g \in SequenceGrammars : pc = "idle" /\ Call(g)

MatchDelimited == \E g \in DelimitedGrammars : pc = "idle" /\ Call(g)

MatchStartsWith == \E g \in StartsWithGrammars : pc = "idle" /\ Call(g)

MatchBracketed == \E g \in BracketedGrammars : pc = "idle" /\ Call(g)

Next ==
    \/ MatchRef
    \/ MatchAnything
    \/ MatchNothing
    \/ MatchAnyNumberOf
    \/ MatchOneOf
    \/ MatchGreedyUntil
    \/ MatchSequence
    \/ MatchDelimited
    \/ MatchStartsWith
    \/ MatchBracketed

Spec == Init /\ [][Next]_vars

----------------------------------------------------------------------------
(* The bracket-sensitive scan, one iteration of its loop at a time: the    *)
(* scan that GreedyUntil makes for its terminators.  pc is the branch the  *)
(* last iteration took.                                                    *)

ScanRaws == {"A", ";", "(", ")", "[", "]", "_"}

ScanInputs == {Lex(raws) : raws \in Tuples(ScanRaws, MaxScanLen)}

ScanGrammars ==
    {GreedyUntil(<<Semicolon>>),
     NoGaps(GreedyUntil(<<Semicolon>>)),
     GreedyUntil(<<Ref("MissingSegment")>>)}

NotFound == Found(<<>>, NoResult, 0)

ScanInit ==
    /\ segments \in ScanInputs
    /\ grammar \in ScanGrammars
    /\ pc = "continue"
    /\ seg_buff = segments
    /\ pre_seg_buff = <<>>
    /\ bracket_stack = <<>>
    /\ result = NotFound
    /\ context = NewContext
    /\ calls = 0
    /\ matched_segments = <<>>
    /\ idx = 0

(* if len(segments) == 0: return ((), MatchResult.from_unmatched(segments), None) *)
ScanEmpty ==
    /\ pc = "continue"
    /\ segments = <<>>
    /\ pc' = "empty"
    /\ result' = Found(<<>>, from_unmatched(segments, context), 0)
    /\ UNCHANGED <<segments, grammar, context, calls, seg_buff, pre_seg_buff,
                   bracket_stack, matched_segments, idx>>

(* The iteration n is taken, if it takes the branch. *)
ScanApply(branch, n) ==
    /\ n.branch = branch
    /\ pc' = n.branch
    /\ seg_buff' = n.seg_buff
    /\ pre_seg_buff' = n.pre_seg_buff
    /\ bracket_stack' = n.bracket_stack
    /\ context' = n.ctx
    /\ result' = IF ScanGoesOn(n) THEN result ELSE n.ret
    /\ calls' = calls + 1
    /\ UNCHANGED <<segments, grammar, matched_segments, idx>>

ScanTo(branch) ==
    ScanApply(branch,
              BracketStep(segments, grammar.elements \o bracket_matchers,
                          ScanState(seg_buff, pre_seg_buff, bracket_stack,
                                    context),
                          grammar.allow_gaps))

(* while True: the loop is entered, and has not returned or raised. *)
Scanning == ScanGoesOn([branch |-> pc]) /\ segments # <<>>

ScanPushOutside == Scanning /\ ScanTo("push_outside")

ScanPushInside == Scanning /\ ScanTo("push_inside")

ScanPopInside == Scanning /\ ScanTo("pop_inside")

ScanUnclosedInside == Scanning /\ ScanTo("unclosed_inside")

ScanUnclosedAtEnd == Scanning /\ ScanTo("unclosed_at_end")

ScanUnexpectedEnd == Scanning /\ ScanTo("unexpected_end")

ScanFound == Scanning /\ ScanTo("found")

ScanNoMatch == Scanning /\ ScanTo("no_match")

ScanExhausted == Scanning /\ ScanTo("exhausted")

ScanRaised == Scanning /\ ScanTo("raised")

ScanNext ==
    \/ ScanEmpty
    \/ ScanPushOutside
    \/ ScanPushInside
    \/ ScanPopInside
    \/ ScanUnclosedInside
    \/ ScanUnclosedAtEnd
    \/ ScanUnexpectedEnd
    \/ ScanFound
    \/ ScanNoMatch
    \/ ScanExhausted
    \/ ScanRaised

SpecScan == ScanInit /\ [][ScanNext]_vars

----------------------------------------------------------------------------
(* Sequence.match, one element of its loop at a time.  pc is the branch    *)
(* the last step took.                                                     *)

SeqInit ==
    /\ segments \in Inputs
    /\ grammar \in SequenceGrammars
    /\ pc = "start"
    /\ idx = 1
    /\ matched_segments = <<>>
    /\ seg_buff = segments
    /\ result = NoResult
    /\ context = NewContext
    /\ calls = 0
    /\ pre_seg_buff = <<>>
    /\ bracket_stack = <<>>

(* The step n is taken, if it takes the branch. *)
SeqApply(branch, n) ==
    /\ n.branch = branch
    /\ pc' = n.branch
    /\ idx' = n.idx
    /\ matched_segments' = n.matched
    /\ seg_buff' = n.unmatched
    /\ context' = n.ctx
    /\ result' = IF SeqGoesOn(n) THEN result ELSE n.ret
    /\ calls' = calls + 1
    /\ UNCHANGED <<segments, grammar, pre_seg_buff, bracket_stack>>

SeqTo(branch) ==
    SeqApply(branch,
             SequenceStep(grammar, segments,
                          SeqState(idx, matched_segments, seg_buff, context)))

(* for idx, elem in enumerate(self._elements): an element is left. *)
AtElement == SeqGoesOn([branch |-> pc]) /\ idx <= Len(grammar.elements)

SeqMetaDisabled == AtElement /\ SeqTo("meta_disabled")

SeqMeta == AtElement /\ SeqTo("meta")

SeqMetaError == AtElement /\ SeqTo("meta_error")

SeqRunOutOk == AtElement /\ SeqTo("run_out_ok")

SeqRunOutError == AtElement /\ SeqTo("run_out_error")

SeqRunOutFail == AtElement /\ SeqTo("run_out_fail")

SeqMatched == AtElement /\ SeqTo("matched")

SeqDropped == AtElement /\ SeqTo("dropped")

SeqSkipped == AtElement /\ SeqTo("skipped")

SeqFailed == AtElement /\ SeqTo("failed")

SeqRaised == AtElement /\ SeqTo("raised")

(* All the elements were matched or skipped. *)
SeqEnd ==
    /\ SeqGoesOn([branch |-> pc])
    /\ idx > Len(grammar.elements)
    /\ pc' = "end"
    /\ result' = SequenceEnd(SeqState(idx, matched_segments, seg_buff, context))
    /\ UNCHANGED <<segments, grammar, context, calls, seg_buff, pre_seg_buff,
                   bracket_stack, matched_segments, idx>>

SeqNextStep ==
    \/ SeqMetaDisabled
    \/ SeqMeta
    \/ SeqMetaError
    \/ SeqRunOutOk
    \/ SeqRunOutError
    \/ SeqRunOutFail
    \/ SeqMatched
    \/ SeqDropped
    \/ SeqSkipped
    \/ SeqFailed
    \/ SeqRaised
    \/ SeqEnd

SpecSeq == SeqInit /\ [][SeqNextStep]_vars

----------------------------------------------------------------------------
(* One parse, several calls: Ref.match is called again and again with the  *)
(* parse context that the calls before it left.                            *)

RefInit ==
    /\ segments \in Inputs
    /\ pc = "parse"
    /\ Idle

RefCall(g) ==
    /\ grammar' = g
    /\ result' = Match(g, segments, context)
    /\ context' = result'.ctx
    /\ calls' = calls + 1
    /\ UNCHANGED <<segments, pc, seg_buff, pre_seg_buff, bracket_stack,
                   matched_segments, idx>>

MatchRefAgain ==
    \E g \in RefGrammars : pc = "parse" /\ calls < MaxCalls /\ RefCall(g)

RefNext == MatchRefAgain

SpecRef == RefInit /\ [][RefNext]_vars

----------------------------------------------------------------------------
(* Delimited.match on longer lists: inputs of keywords, delimiters and     *)
(* whitespace.                                                             *)

DelimitedRaws == {"A", "B", ";", "_"}

DelimitedInputs == {Lex(raws) : raws \in Tuples(DelimitedRaws, MaxDelimitedLen)}

DelimitedInit ==
    /\ segments \in DelimitedInputs
    /\ pc = "idle"
    /\ Idle

DelimitedNext == MatchDelimited

SpecDelimited == DelimitedInit /\ [][DelimitedNext]_vars

----------------------------------------------------------------------------
(* Bracketed.match on longer inputs: a bracketed content with whitespace   *)
(* around it and segments after it.                                        *)

BracketedRaws == {"A", "(", ")", "_"}

BracketedInputs == {Lex(raws) : raws \in Tuples(BracketedRaws, MaxBracketedLen)}

BracketedInit ==
    /\ segments \in BracketedInputs
    /\ pc = "idle"
    /\ Idle

BracketedNext == MatchBracketed

SpecBracketed == BracketedInit /\ [][BracketedNext]_vars

----------------------------------------------------------------------------
(* GreedyUntil.match and StartsWith.match on longer inputs: terminators    *)
(* in and out of brackets, with and without whitespace before them.        *)

GreedyRaws == {"A", ";", "(", ")", "_"}

GreedyInputs == {Lex(raws) : raws \in Tuples(GreedyRaws, MaxGreedyLen)}

GreedyInit ==
    /\ segments \in GreedyInputs
    /\ pc = "idle"
    /\ Idle

GreedyNext ==
    \/ MatchGreedyUntil
    \/ MatchStartsWith

SpecGreedy == GreedyInit /\ [][GreedyNext]_vars

----------------------------------------------------------------------------
(* A single match attempt on inputs with comments: non-code segments that  *)
(* str.strip() does not empty.                                             *)

PruneRaws == {"A", "B", "_", "#"}

PruneInputs == {Lex(raws) : raws \in Tuples(PruneRaws, MaxPruneLen)}

(* A non-simple matcher of "B": Nothing has no simple(). *)
NonSimpleB == OneOf(<<B, Nothing>>)

PrunePool ==
    {A, B, Sequence(<<A>>), Sequence(<<A, B>>), Sequence(<<B, A>>), NonSimpleB}

PruneGrammars ==
    {OneOf(elements) : elements \in UNION {[1..k -> PrunePool] : k \in 1..2}}

PruneInit ==
    /\ segments \in PruneInputs
    /\ pc = "idle"
    /\ Idle

MatchOncePruning ==
    /\ pc = "idle"
    /\ grammar' \in PruneGrammars
    /\ result' = match_once(grammar', segments, NewContext)
    /\ context' = result'.ctx
    /\ calls' = calls + 1
    /\ pc' = "done"
    /\ UNCHANGED <<segments, seg_buff, pre_seg_buff, bracket_stack,
                   matched_segments, idx>>

PruneNext == MatchOncePruning

SpecPrune == PruneInit /\ [][PruneNext]_vars

----------------------------------------------------------------------------
(* The loop of AnyNumberOf.match, one iteration at a time.  matched_segments *)
(* and seg_buff are the loop's matched_segments and unmatched_segments,    *)
(* idx is n_matches.                                                       *)

LoopRaws == {"A", "B", "_"}

LoopInputs == {Lex(raws) : raws \in Tuples(LoopRaws, MaxLoopLen)}

(* A match of Sequence(Indent) is the inserted meta segment alone. *)
MetaOnly == Sequence(<<Indent>>)

(* Grammars whose elements take a segment of the input when they match. *)
ConsumingLoopGrammars ==
    {AnyNumberOf(<<A>>, 0, <<>>),
     AnyNumberOf(<<A, B>>, 1, <<>>),
     AnyNumberOf(<<Sequence(<<A, Indent>>), B>>, 0, <<>>),
     [AnyNumberOf(<<A, B>>, 0, <<2>>) EXCEPT !.allow_gaps = FALSE]}

LoopGrammars ==
    ConsumingLoopGrammars
        \cup {AnyNumberOf(<<MetaOnly>>, 0, <<>>),
              AnyNumberOf(<<A, MetaOnly>>, 0, <<>>),
              AnyNumberOf(<<MetaOnly>>, 0, <<2>>)}

LoopInit ==
    /\ segments \in LoopInputs
    /\ pc = "idle"
    /\ Idle

(* matched_segments = from_empty(); unmatched_segments = segments; n_matches = 0 *)
LoopEnter ==
    /\ pc = "idle"
    /\ grammar' \in LoopGrammars
    /\ matched_segments' = <<>>
    /\ seg_buff' = segments
    /\ idx' = 0
    /\ pc' = "loop"
    /\ calls' = calls + 1
    /\ UNCHANGED <<segments, result, context, pre_seg_buff, bracket_stack>>

(* pre_seg and the buffer that _match_once is given in this iteration. *)
LoopPreSeg ==
    IF idx > 0 /\ grammar.allow_gaps THEN trim_non_code(seg_buff)[1] ELSE <<>>

LoopBuffer ==
    IF idx > 0 /\ grammar.allow_gaps
    THEN trim_non_code(seg_buff)[2] \o trim_non_code(seg_buff)[3]
    ELSE seg_buff

LoopMatch == match_once(grammar, LoopBuffer, context)

(* The iteration returns: max_times is reached, nothing is left, or        *)
(* _match_once has no match (or raises).                                   *)
LoopReturns ==
    \/ MaxTimesReached(grammar, idx)
    \/ Len(seg_buff) = 0
    \/ ~has_match(LoopMatch)
    \/ Raised(LoopMatch)

LoopReturn ==
    /\ pc = "loop"
    /\ LoopReturns
    /\ result' = AnyNumberOfLoop(grammar, segments, matched_segments, seg_buff,
                                 idx, context)
    /\ context' = result'.ctx
    /\ pc' = "done"
    /\ UNCHANGED <<segments, grammar, calls, seg_buff, pre_seg_buff,
                   bracket_stack, matched_segments, idx>>

(* if match: matched_segments += pre_seg + match.matched_segments; ...     *)
LoopIterate ==
    /\ pc = "loop"
    /\ ~LoopReturns
    /\ idx < MaxIterations
    /\ matched_segments' = matched_segments \o LoopPreSeg \o LoopMatch.matched
    /\ seg_buff' = LoopMatch.unmatched
    /\ idx' = idx + 1
    /\ context' = LoopMatch.ctx
    /\ UNCHANGED <<segments, grammar, result, calls, pre_seg_buff,
                   bracket_stack, pc>>

LoopNext ==
    \/ LoopEnter
    \/ LoopReturn
    \/ LoopIterate

SpecLoop == LoopInit /\ [][LoopNext]_vars

----------------------------------------------------------------------------
(* The look-ahead and the longest match, on their own: class methods that  *)
(* take a list of matchers.  `grammar` holds the matchers and allow_gaps   *)
(* of the call, and `result` the (pre_segments, match, matcher) returned.  *)

LookRaws == {"A", "B", "_"}

LookInputs == {Lex(raws) : raws \in Tuples(LookRaws, MaxLookLen)}

MatcherPool ==
    {A, B, Sequence(<<A, B>>), NonSimpleB, Sequence(<<NonSimpleB, A>>),
     StartsWith(NonSimpleB)}

MatcherLists == UNION {[1..k -> MatcherPool] : k \in 1..2}

LookCall(matchers, allow_gaps) ==
    [BaseGrammar EXCEPT !.elements = matchers, !.allow_gaps = allow_gaps]

LookInit ==
    /\ segments \in LookInputs
    /\ pc = "idle"
    /\ Idle

LookAhead ==
    /\ pc = "idle"
    /\ grammar' \in {LookCall(ms, gaps) : ms \in MatcherLists, gaps \in BOOLEAN}
    /\ result' = look_ahead_match(segments, grammar'.elements, NewContext,
                                  grammar'.allow_gaps)
    /\ context' = result'.m.ctx
    /\ calls' = calls + 1
    /\ pc' = "looked"
    /\ UNCHANGED <<segments, seg_buff, pre_seg_buff, bracket_stack,
                   matched_segments, idx>>

Longest ==
    /\ pc = "idle"
    /\ grammar' \in {LookCall(ms, gaps) : ms \in MatcherLists, gaps \in BOOLEAN}
    /\ result' = longest_code_only_sensitive_match(segments, grammar'.elements,
                                                   NewContext,
                                                   grammar'.allow_gaps)
    /\ context' = result'.m.ctx
    /\ calls' = calls + 1
    /\ pc' = "longest"
    /\ UNCHANGED <<segments, seg_buff, pre_seg_buff, bracket_stack,
                   matched_segments, idx>>

LookNext ==
    \/ LookAhead
    \/ Longest

SpecLook == LookInit /\ [][LookNext]_vars

----------------------------------------------------------------------------
(* A single match attempt of OneOf or AnyNumberOf, on its own.             *)

OnceInit ==
    /\ segments \in Inputs
    /\ pc = "idle"
    /\ Idle

MatchOnce ==
    /\ pc = "idle"
    /\ grammar' \in OneOfGrammars \cup AnyNumberOfGrammars
    /\ result' = match_once(grammar', segments, NewContext)
    /\ context' = result'.ctx
    /\ calls' = calls + 1
    /\ pc' = "done"
    /\ UNCHANGED <<segments, seg_buff, pre_seg_buff, bracket_stack,
                   matched_segments, idx>>

OnceNext == MatchOnce

SpecOnce == OnceInit /\ [][OnceNext]_vars

----------------------------------------------------------------------------
(* Properties of a returned result.                                        *)

Returned == pc = "done" /\ ~Raised(result)

(* C1: for every combinator and every input, the matched segments of a    *)
(* returned result with the meta segments removed, followed by its         *)
(* unmatched segments, are exactly the input in the same order, for a      *)
(* failed match and for an input with leading or trailing non-code too.    *)
C1_MatchPartitionsInput ==
    Returned => NonMeta(result.matched) \o result.unmatched = segments

(* AnyNumberOf(A, min_times=2) on "A B" matches once, misses its hurdle    *)
(* and returns from_unmatched of what was left: the matched A is in        *)
(* neither half of the result.                                             *)
C1_HurdleDropsMatched ==
    /\ Returned
    /\ grammar = AnyNumberOf(<<A>>, 2, <<>>)
    /\ segments = Lex(<<"A", "B">>)
    /\ result.matched = <<>>
    /\ result.unmatched = Tail(segments)

(* C2: a match call returns a result, a failure being a result with no    *)
(* matched segments; the only errors it raises are the lookup of an        *)
(* unknown reference and the unclosed-bracket and unexpected-close-bracket *)
(* errors of the bracket-sensitive scan.                                   *)
C2_OnlyStructuralErrors ==
    pc = "done" /\ Raised(result)
        => result.err \in {"UnknownReference", "UnclosedBracket",
                           "UnexpectedEndBracket"}

(* Sequence(Optional(A), Optional(B)) on the empty input indexes the last  *)
(* of no matched segments.                                                 *)
C2_SequenceIndexError ==
    /\ pc = "done"
    /\ grammar = Sequence(<<Optional(A), Optional(B)>>)
    /\ segments = <<>>
    /\ result.err = "IndexError"

----------------------------------------------------------------------------
(* Properties of the bracket-sensitive scan.                               *)

IsStartBracket(seg) == seg.raw \in {"(", "["}

IsEndBracket(seg) == seg.raw \in {")", "]"}

Partner(seg) == IF seg.raw = "(" THEN ")" ELSE "]"

(* The brackets of segs that are open at its end, innermost last, when an  *)
(* end bracket closes the innermost open bracket whatever its kind.        *)
RECURSIVE OpenBrackets(_, _)

OpenBrackets(segs, stack) ==
    IF segs = <<>> THEN stack
    ELSE IF IsStartBracket(segs[1])
    THEN OpenBrackets(Tail(segs), Append(stack, segs[1]))
    ELSE IF IsEndBracket(segs[1]) /\ stack # <<>>
    THEN OpenBrackets(Tail(segs), Head2(stack, Len(stack) - 1))
    ELSE OpenBrackets(Tail(segs), stack)

(* Every start bracket of segs has its own kind of end bracket later in    *)
(* segs, and every end bracket closes the innermost open bracket.          *)
RECURSIVE Balanced(_, _)

Balanced(segs, stack) ==
    IF segs = <<>> THEN stack = <<>>
    ELSE IF IsStartBracket(segs[1])
    THEN Balanced(Tail(segs), Append(stack, segs[1]))
    ELSE IF IsEndBracket(segs[1])
    THEN /\ stack # <<>>
         /\ segs[1].raw = Partner(stack[Len(stack)])
         /\ Balanced(Tail(segs), Head2(stack, Len(stack) - 1))
    ELSE Balanced(Tail(segs), stack)

ScanReturned == ~ScanGoesOn([branch |-> pc]) /\ pc # "empty"

(* C3: when the bracket-sensitive look-ahead returns a successful match,   *)
(* the pre_segments it returns are bracket-balanced: every start bracket   *)
(* in them has a matching end bracket later in them.                       *)
C3_PreSegmentsBalanced ==
    pc = "found" => Balanced(result.pre, <<>>)

(* "( ] ;": the square end bracket pops the round start bracket and the    *)
(* terminator after it is returned.                                        *)
C3_MismatchedPairReturned ==
    /\ pc = "found"
    /\ RawsOf(result.pre) = <<"(", "]">>
    /\ RawsOf(result.m.matched) = <<";">>

(* The returned pre_segments do hold as many end brackets as start         *)
(* brackets, none of them before its start bracket.                        *)
PreSegmentsCounted ==
    pc = "found" =>
        /\ OpenBrackets(result.pre, <<>>) = <<>>
        /\ \A i \in 1..Len(result.pre) :
               IsEndBracket(result.pre[i])
                   => OpenBrackets(Head2(result.pre, i - 1), <<>>) # <<>>

(* C4: when the scan ends with a bracket stack that is not empty, it ends  *)
(* with an unclosed-bracket error whose segment is the bracket on top of   *)
(* the stack, the most recently opened bracket that is still unclosed.     *)
C4_UnclosedCarriesOpenBracket ==
    ScanReturned /\ bracket_stack # <<>> =>
        /\ pc \in {"unclosed_inside", "unclosed_at_end"}
        /\ result.m.err = "UnclosedBracket"
        /\ result.m.eseg = Top(OpenBrackets(pre_seg_buff, <<>>))

(* "_ (" with gaps allowed: the error carries the whitespace before the    *)
(* bracket.                                                                *)
C4_UnclosedCarriesWhitespace ==
    /\ pc = "unclosed_at_end"
    /\ RawsOf(segments) = <<"_", "(">>
    /\ RawsOf(result.m.eseg) = <<"_">>

(* C5: with an empty bracket stack, a start bracket is pushed and the scan *)
(* goes on after it; an end bracket raises an unexpected-close-bracket     *)
(* error carrying that bracket; a target is returned with everything       *)
(* scanned so far as pre_segments.                                         *)
C5_OutsideTheStack ==
    /\ pc = "push_outside" =>
           /\ Len(bracket_stack) = 1
           /\ IsStartBracket(bracket_stack[1])
           /\ \E i \in 1..Len(pre_seg_buff) :
                  /\ pre_seg_buff[i] = bracket_stack[1]
                  /\ \A j \in (i + 1)..Len(pre_seg_buff) :
                         ~IsCode(pre_seg_buff[j])
           /\ pre_seg_buff \o seg_buff = segments
    /\ pc = "unexpected_end" =>
           /\ result.m.err = "UnexpectedEndBracket"
           /\ Len(result.m.eseg) = 1
           /\ IsEndBracket(result.m.eseg[1])
    /\ pc = "found" =>
           /\ has_match(result.m)
           /\ result.pre \o all_segments(result.m) = segments

(* "_ )" with gaps allowed: the error carries the whitespace before the    *)
(* bracket.                                                                *)
C5_UnexpectedCarriesWhitespace ==
    /\ pc = "unexpected_end"
    /\ RawsOf(segments) = <<"_", ")">>
    /\ RawsOf(result.m.eseg) = <<"_">>

----------------------------------------------------------------------------
(* Properties of the blacklist of one parse.                               *)

(* C6: once the referent of a name has failed on an input, a later         *)
(* Ref.match of the same name on the same sequence of segment identities   *)
(* returns unmatched from the blacklist check: the referent is not invoked *)
(* on them again.                                                          *)
C6_FailedReferenceNotRetried ==
    \A i, j \in 1..Len(context.tried) :
        /\ i < j
        /\ context.tried[i].name = context.tried[j].name
        /\ context.tried[i].ids = context.tried[j].ids
        => context.tried[i].ok

(* Ref("AKeywordSegment") twice on "B": the referent is invoked, and       *)
(* fails, both times.                                                      *)
C6_ReferentInvokedTwice ==
    /\ calls = 2
    /\ RawsOf(segments) = <<"B">>
    /\ grammar = A
    /\ Len(context.tried) = 2
    /\ ~context.tried[1].ok
    /\ context.tried[1] = context.tried[2]

(* C7: an entry of the blacklist is added only when the referent returned  *)
(* no matched segments, and its key is the name of the reference with the  *)
(* identities of the segments of the input that failed, in order: one      *)
(* entry for a name and an input.                                          *)
C7_BlacklistKeyedByIdentities ==
    /\ \A e \in context.blacklist :
           \E i \in 1..Len(context.tried) :
               /\ context.tried[i].name = e[1]
               /\ context.tried[i].ids = e[2].yields
               /\ ~context.tried[i].ok
    /\ \A e1, e2 \in context.blacklist :
           e1[1] = e2[1] /\ e1[2].yields = e2[2].yields => e1 = e2

(* Two failures of a name on an input leave two entries. *)
C7_TwoEntriesForOneInput ==
    /\ RawsOf(segments) = <<"B">>
    /\ Cardinality({e \in context.blacklist : e[1] = "AKeywordSegment"}) = 2

(* No entry of the blacklist is removed, and a Ref.match whose referent    *)
(* matched adds none.                                                      *)
BlacklistOnlyGrows ==
    [][/\ context.blacklist \subseteq context'.blacklist
       /\ has_match(result') /\ grammar'.name \in {"AKeywordSegment",
                                                   "BKeywordSegment"}
              => context'.blacklist = context.blacklist]_vars

----------------------------------------------------------------------------
(* Properties of the depth of the parse context.                           *)

Deepening == {"AnyNumberOf", "OneOf", "Sequence", "Delimited", "GreedyUntil",
              "StartsWith"}

Restored == context.depth = 0 /\ context.matching = ""

(* C8 as stated: the depth and the matching segment of the context are on  *)
(* exit what they were on entry, the matchers that AnyNumberOf, OneOf,     *)
(* Sequence, Delimited, GreedyUntil, StartsWith and Bracketed invoke run   *)
(* one deeper than their caller, and the referent of a Ref at the depth of *)
(* the Ref.                                                                *)
C8_ChildrenOneDeeper ==
    pc = "done" =>
        /\ Restored
        /\ \A e \in context.log :
               /\ e[1] \in Deepening \cup {"Bracketed"} => e[3] = 1
               /\ e[1] = "Ref" => e[3] = 0

(* C8: the depth and the matching segment of the context are on exit what  *)
(* they were on entry, by return or by a raised error.  The matchers that  *)
(* AnyNumberOf, OneOf, Sequence, Delimited, GreedyUntil and StartsWith     *)
(* invoke run one deeper than their caller, and the referent of a Ref at   *)
(* the depth of the Ref.  Bracketed matches its start bracket one deeper,  *)
(* scans for its end bracket at its own depth, and runs Sequence.match one *)
(* deeper, which runs the elements one deeper again.  (Its scan matches    *)
(* the bracket segments of the dialect themselves, at its own depth too.)  *)
C8_DepthRestored ==
    pc = "done" =>
        /\ Restored
        /\ \A e \in context.log :
               /\ e[1] \in Deepening => e[3] = 1
               /\ e[1] \in {"Ref", "top"} => e[3] = 0
               /\ e[1] = "Bracketed" =>
                      \/ e[2] = "Sequence" /\ e[3] = 1
                      \/ e[2] = "Ref" /\ e[3] \in {0, 1}
                      \/ e[2] = "Keyword" /\ e[3] = 0

(* A Bracketed has matched its brackets and its content, and another has   *)
(* raised for a bracket it could not close.                                *)
C8_BracketedDepths ==
    /\ pc = "done"
    /\ Restored
    /\ {<<"Bracketed", "Ref", 0>>, <<"Bracketed", "Ref", 1>>,
        <<"Bracketed", "Sequence", 1>>, <<"Sequence", "Ref", 1>>,
        <<"Ref", "Keyword", 0>>} \subseteq context.log
    /\ is_complete(result)

C8_RaisedRestored ==
    /\ pc = "done"
    /\ Restored
    /\ result.err = "UnclosedBracket"
    /\ <<"top", "GreedyUntil", 0>> \in context.log

----------------------------------------------------------------------------
(* Properties of the steps of Sequence.match.                              *)

Elem == grammar.elements[idx]

(* What the element is matched against: the buffer, trimmed of non-code   *)
(* when gaps are allowed.                                                  *)
MidSeg ==
    IF grammar.allow_gaps THEN trim_non_code(seg_buff)[2] ELSE seg_buff

ElemMatch == Match(Elem, MidSeg, deeper_match(context))

ElemFails == ~Raised(ElemMatch) /\ ~has_match(ElemMatch)

SeqReturned == ~SeqGoesOn([branch |-> pc]) /\ pc # "end"

(* C10: when the input is exhausted where only optional or meta elements   *)
(* remain, Sequence.match returns a success, never unmatched and never an  *)
(* error, for the empty input too: what it has matched, and the enabled    *)
(* meta elements that remain.                                              *)
C10_RunOutSucceeds ==
    SeqReturned /\ seg_buff = <<>>
                /\ OnlyOptionalRemain(Tail2(grammar.elements, idx - 1)) =>
        /\ ~Raised(result)
        /\ result.unmatched = <<>>
        /\ result.matched
               = matched_segments
                     \o RemainingMeta(Tail2(grammar.elements, idx - 1))

(* Sequence(Optional(A), Optional(B)) on the empty input: the anchor of    *)
(* the remaining meta segments is the last of no matched segments.         *)
C10_EmptyInputRaises ==
    /\ pc = "run_out_error"
    /\ grammar = Sequence(<<Optional(A), Optional(B)>>)
    /\ segments = <<>>
    /\ result.err = "IndexError"

(* With something matched, it does succeed. *)
RunOutAfterMatchSucceeds ==
    SeqReturned /\ seg_buff = <<>> /\ matched_segments # <<>>
                /\ OnlyOptionalRemain(Tail2(grammar.elements, idx - 1)) =>
        /\ ~Raised(result)
        /\ result.unmatched = <<>>
        /\ result.matched
               = matched_segments
                     \o RemainingMeta(Tail2(grammar.elements, idx - 1))

----------------------------------------------------------------------------
(* Properties of the edges of the input.                                   *)

OnlyNonCode(segs) ==
    segs # <<>> /\ \A i \in 1..Len(segs) : ~IsCode(segs[i])

(* C11: on an input of nothing but non-code segments, a Sequence that      *)
(* allows gaps matches if all of its elements are optional, and returns    *)
(* unmatched over the input otherwise.                                     *)
C11_OnlyNonCodeInput ==
    /\ pc = "done"
    /\ grammar.kind = "Sequence"
    /\ grammar.allow_gaps
    /\ OnlyNonCode(segments)
    /\ ~Raised(result)
    => IF OnlyOptionalRemain(grammar.elements)
       THEN has_match(result)
       ELSE result.matched = <<>> /\ result.unmatched = segments

(* Sequence(Optional(A), Optional(B)) on "_": both elements are skipped    *)
(* and the whitespace is returned unmatched.                               *)
C11_OptionalsOnWhitespace ==
    /\ pc = "done"
    /\ grammar = Sequence(<<Optional(A), Optional(B)>>)
    /\ RawsOf(segments) = <<"_">>
    /\ result.matched = <<>>
    /\ result.unmatched = segments

(* A Sequence with a required element does return unmatched on it. *)
RequiredOnNonCodeUnmatched ==
    /\ pc = "done"
    /\ grammar.kind = "Sequence"
    /\ grammar.allow_gaps
    /\ OnlyNonCode(segments)
    /\ ~Raised(result)
    /\ ~OnlyOptionalRemain(grammar.elements)
    => result.matched = <<>> /\ result.unmatched = segments

(* C12: for every combinator, match on the empty input returns a result    *)
(* whose matched and unmatched segments are both empty, and raises no      *)
(* error, whatever the elements, min_times and optionality.  (The lookup   *)
(* of an unknown reference is an error of the grammar, not of the match.)  *)
C12_EmptyInputReturnsEmpty ==
    pc = "done" /\ segments = <<>> /\ result.err # "UnknownReference" =>
        /\ ~Raised(result)
        /\ result.matched = <<>>
        /\ result.unmatched = <<>>

(* Sequence(Indent, A, Dedent) on the empty input: the position of the     *)
(* Indent is taken from the first of no unmatched segments.                *)
C12_MetaFirstOnEmptyInput ==
    /\ pc = "done"
    /\ grammar = Sequence(<<Indent, A, Dedent>>)
    /\ segments = <<>>
    /\ result.err = "IndexError"

(* The combinators other than Sequence do return an empty result, unless   *)
(* StartsWith is asked to match without gaps.                              *)
EmptyInputOutsideSequence ==
    /\ pc = "done"
    /\ segments = <<>>
    /\ grammar.kind # "Sequence"
    /\ result.err \notin {"UnknownReference", "NotImplementedError"}
    => /\ ~Raised(result)
       /\ result.matched = <<>>
       /\ result.unmatched = <<>>

----------------------------------------------------------------------------
(* Properties of OneOf and AnyNumberOf.                                    *)

(* What the i-th element of the grammar matches of the input, on its own. *)
Attempt(i) == Match(grammar.elements[i], segments, deeper_match(NewContext))

Options == 1..Len(grammar.elements)

(* m.is_complete(): nothing is left unmatched. *)
Completes(i) == is_complete(Attempt(i))

Partial(i) == has_match(Attempt(i)) /\ ~is_complete(Attempt(i))

FirstComplete ==
    CHOOSE i \in Options : Completes(i) /\ \A j \in 1..(i - 1) : ~Completes(j)

(* The longest of the partial matches, the earliest of the longest. *)
LongestPartial ==
    CHOOSE i \in Options :
        /\ Partial(i)
        /\ \A j \in Options :
               Partial(j) =>
                   \/ RawLen(Attempt(j).matched) < RawLen(Attempt(i).matched)
                   \/ /\ RawLen(Attempt(j).matched) = RawLen(Attempt(i).matched)
                      /\ i <= j

IsAttempt(i) ==
    /\ result.matched = Attempt(i).matched
    /\ result.unmatched = Attempt(i).unmatched

C14_MaxTimesZeroMatchesNothing ==
    /\ pc = "done"
    /\ grammar.kind = "AnyNumberOf"
    /\ grammar.max_times = <<0>>
    => ~Raised(result) /\ result.matched = <<>>

(* AnyNumberOf(A, B, max_times=0) on "A B": both segments are matched.      *)
C14_MaxTimesZeroUnbounded ==
    /\ pc = "done"
    /\ grammar = AnyNumberOf(<<A, B>>, 0, <<0>>)
    /\ RawsOf(segments) = <<"A", "B">>
    /\ result.matched = segments
    /\ result.unmatched = <<>>

(* The repetition as the bounds describe it: n single attempts have        *)
(* succeeded and have matched `matched`, `unmatched` is left.  The result  *)
(* carries n and whether the match is returned (met) or given up.          *)
Repeated(matched, unmatched, n, met) ==
    [matched |-> matched, unmatched |-> unmatched, n |-> n, met |-> met]

RECURSIVE Repetition(_, _, _, _, _)

RepetitionNext(g, matched, pre_seg, rest, n, m) ==
    IF has_match(m)
    THEN Repetition(g, matched \o pre_seg \o m.matched, m.unmatched, n + 1,
                    m.ctx)
    ELSE Repeated(matched, pre_seg \o rest, n, n >= g.min_times)

Repetition(g, matched, unmatched, n, ctx) ==
    IF g.max_times # <<>> /\ n >= g.max_times[1]
    THEN Repeated(matched, unmatched, n, TRUE)
    ELSE IF unmatched = <<>>
    THEN Repeated(matched, unmatched, n, n >= g.min_times)
    ELSE RepetitionNext(g, matched,
                        IF n > 0 /\ g.allow_gaps
                        THEN trim_non_code(unmatched)[1] ELSE <<>>,
                        IF n > 0 /\ g.allow_gaps
                        THEN trim_non_code(unmatched)[2]
                                 \o trim_non_code(unmatched)[3]
                        ELSE unmatched,
                        n, match_once(g, IF n > 0 /\ g.allow_gaps
                                         THEN trim_non_code(unmatched)[2]
                                                  \o trim_non_code(unmatched)[3]
                                         ELSE unmatched, ctx))

Bounded(r) ==
    IF r.met
    THEN /\ result.matched = r.matched
         /\ result.unmatched = r.unmatched
         /\ grammar.min_times <= r.n
         /\ grammar.max_times # <<>> => r.n <= grammar.max_times[1]
    ELSE result.matched = <<>>

(* C15: AnyNumberOf.match returns what n successful single attempts have   *)
(* matched, with min_times <= n and n <= max_times when max_times is set:  *)
(* it stops at max_times; when the input runs out or an attempt fails it   *)
(* returns what it has if n >= min_times, the non-code trimmed before the  *)
(* failed attempt in front of the unmatched segments, and no match         *)
(* otherwise.  OneOf is the case min_times = max_times = 1.                *)
C15_RepetitionBounds ==
    /\ pc = "done"
    /\ grammar.kind \in {"AnyNumberOf", "OneOf"}
    /\ grammar.exclude = <<>>
    /\ ~Raised(result)
    => Bounded(Repetition(grammar, <<>>, segments, 0, NewContext))

(* AnyNumberOf(A, B, max_times=0) on "A": one attempt is made and its      *)
(* match returned, beyond the maximum of none.                             *)
C15_BeyondMaxTimes ==
    /\ pc = "done"
    /\ grammar = AnyNumberOf(<<A, B>>, 0, <<0>>)
    /\ RawsOf(segments) = <<"A">>
    /\ result.matched = segments
    /\ Repetition(grammar, <<>>, segments, 0, NewContext).n = 0

(* With a maximum other than 0, or none, the bounds are kept. *)
RepetitionBoundsOfPositiveMaximum ==
    grammar.max_times # <<0>> => C15_RepetitionBounds

(* OneOf returns what its single attempt has matched, or no match. *)
OneOfConsumesOneMatch ==
    /\ pc = "done"
    /\ grammar.kind = "OneOf"
    /\ ~Raised(result)
    /\ has_match(result)
    => /\ result.matched = match_once(grammar, segments, NewContext).matched
       /\ result.unmatched = match_once(grammar, segments, NewContext).unmatched

----------------------------------------------------------------------------
(* Properties of Delimited.                                                *)

(* The matcher matches the one segment, all of it. *)
MatchesAll(matcher, seg) ==
    /\ has_match(Match(matcher, <<seg>>, deeper_match(NewContext)))
    /\ is_complete(Match(matcher, <<seg>>, deeper_match(NewContext)))

(* An item: a segment that an element of the grammar matches. *)
IsItem(seg) ==
    \E k \in 1..Len(grammar.elements) : MatchesAll(grammar.elements[k], seg)

IsDelimiter(seg) == MatchesAll(grammar.delimiter[1], seg)

(* The input is a list of items with a delimiter between each two. *)
ItemList(segs) ==
    /\ Len(segs) % 2 = 1
    /\ \A i \in 1..Len(segs) :
           IF i % 2 = 1 THEN IsItem(segs[i]) ELSE IsDelimiter(segs[i])

DelimitersMet(n) ==
    grammar.min_delimiters = <<>> \/ n >= grammar.min_delimiters[1]

(* C16: Delimited without a terminator and without allow_trailing matches  *)
(* completely every input that is a list of items with a delimiter between *)
(* each two and none at the end, however many the items (and at least as   *)
(* many delimiters as min_delimiters, where that is set).                  *)
C16_ItemListMatchedCompletely ==
    /\ pc = "done"
    /\ grammar.kind = "Delimited"
    /\ grammar.terminator = <<>>
    /\ ~grammar.allow_trailing
    /\ ItemList(segments)
    /\ DelimitersMet(Len(segments) \div 2)
    => /\ ~Raised(result)
       /\ result.matched = segments
       /\ result.unmatched = <<>>

(* Delimited(A, delimiter=";") on "A ; A ; A": a list of three items.      *)
C16_ThreeItems ==
    /\ pc = "done"
    /\ grammar = Delimited(<<A>>, Semicolon)
    /\ RawsOf(segments) = <<"A", ";", "A", ";", "A">>
    /\ ItemList(segments)
    /\ result.matched = segments
    /\ result.unmatched = <<>>

(* The delimiters among the segments. *)
Delimiters(segs) == {i \in 1..Len(segs) : IsDelimiter(segs[i])}

(* The input ends with a delimiter: nothing comes after it. *)
EndsWithDelimiter ==
    /\ pc = "done"
    /\ grammar.kind = "Delimited"
    /\ segments # <<>>
    /\ IsDelimiter(segments[Len(segments)])
    /\ ~Raised(result)

TrailingRule ==
    /\ has_match(result) =>
           /\ grammar.allow_trailing
           /\ DelimitersMet(Cardinality(Delimiters(result.matched)))
    /\ ~grammar.allow_trailing =>
           result.matched = <<>> /\ result.unmatched = segments

(* C17: when the input of Delimited ends with a delimiter, the result is a *)
(* match only if allow_trailing is set and min_delimiters is met, and      *)
(* without allow_trailing it is unmatched over the whole input.            *)
C17_TrailingDelimiter == EndsWithDelimiter => TrailingRule

(* C17, for a Delimited that has no terminator: the scan then reaches the  *)
(* delimiter at the end, and the rule of the trailing delimiter decides.   *)
C17_TrailingDelimiterReached ==
    EndsWithDelimiter /\ grammar.terminator = <<>> => TrailingRule

(* Delimited(A, delimiter=";", allow_trailing, min_delimiters=2) on        *)
(* "A ; A ;": the trailing delimiter is the second, and all is matched.    *)
C17_TrailingAllowed ==
    /\ EndsWithDelimiter
    /\ grammar.allow_trailing
    /\ grammar.min_delimiters = <<2>>
    /\ RawsOf(segments) = <<"A", ";", "A", ";">>
    /\ result.matched = segments
    /\ result.unmatched = <<>>

(* Delimited(A, delimiter=";", terminator=B) on "A B ;": the terminator is *)
(* found before the delimiter at the end, and "A" is matched.              *)
C17_TerminatorBeforeTrailing ==
    /\ EndsWithDelimiter
    /\ grammar = [Delimited(<<A>>, Semicolon) EXCEPT !.terminator = <<B>>]
    /\ RawsOf(segments) = <<"A", "B", ";">>
    /\ ~grammar.allow_trailing
    /\ result.matched = Head2(segments, 1)
    /\ result.unmatched = Tail2(segments, 1)

IsTerminator(seg) == MatchesAll(grammar.terminator[1], seg)

(* The place of the terminator that the scan finds: the first one. *)
FirstTerminator ==
    CHOOSE i \in 1..Len(segments) :
        /\ IsTerminator(segments[i])
        /\ \A j \in 1..(i - 1) : ~IsTerminator(segments[j])

BeforeTerminator == Head2(segments, FirstTerminator - 1)

(* The sections of s that its delimiters separate. *)
RECURSIVE Sections(_)
Sections(s) ==
    IF Delimiters(s) = {} THEN <<s>>
    ELSE LET i == CHOOSE i \in Delimiters(s) : \A j \in Delimiters(s) : i <= j
         IN  <<Head2(s, i - 1)>> \o Sections(Tail2(s, i))

ContentOf(section) ==
    IF grammar.allow_gaps THEN trim_non_code(section)[2] ELSE section

(* The content of the section is not empty, and an element matches all of  *)
(* it.                                                                     *)
ContentMatched(section) ==
    /\ ContentOf(section) # <<>>
    /\ \E k \in 1..Len(grammar.elements) :
           /\ has_match(Match(grammar.elements[k], ContentOf(section),
                              deeper_match(NewContext)))
           /\ is_complete(Match(grammar.elements[k], ContentOf(section),
                                deeper_match(NewContext)))

TerminatorFound ==
    /\ pc = "done"
    /\ grammar.kind = "Delimited"
    /\ grammar.terminator # <<>>
    /\ \E i \in 1..Len(segments) : IsTerminator(segments[i])
    /\ ~Raised(result)

(* C18: when the scan of Delimited finds the terminator, and an element    *)
(* matches all of the content of each section before it, and min_delimiters *)
(* is met, the match is of what comes before the terminator, and the       *)
(* unmatched segments are the terminator's own and all that follow it; in  *)
(* every other case the result is unmatched over the whole input.          *)
C18_TerminatorLeftUnmatched ==
    TerminatorFound
    => IF /\ \A k \in 1..Len(Sections(BeforeTerminator)) :
                ContentMatched(Sections(BeforeTerminator)[k])
          /\ DelimitersMet(Cardinality(Delimiters(BeforeTerminator)))
       THEN /\ result.matched = BeforeTerminator
            /\ result.unmatched = Tail2(segments, FirstTerminator - 1)
       ELSE /\ result.matched = <<>>
            /\ result.unmatched = segments

(* Delimited(A, delimiter=";", terminator=B, min_delimiters=1) on          *)
(* "A ; A B A": the match ends before the terminator.                      *)
C18_TerminatorAfterTwoItems ==
    /\ TerminatorFound
    /\ grammar.min_delimiters = <<1>>
    /\ RawsOf(segments) = <<"A", ";", "A", "B", "A">>
    /\ FirstTerminator = 4
    /\ result.matched = Head2(segments, 3)
    /\ result.unmatched = Tail2(segments, 3)

----------------------------------------------------------------------------
(* Properties of Bracketed.                                                *)

(* The brackets open between the second segment and the i-th. *)
BracketDepth(i) ==
    Cardinality({j \in 2..i : RawUpper(segments[j]) = "("})
        - Cardinality({j \in 2..i : RawUpper(segments[j]) = ")"})

(* The input starts with an opening bracket that has a partner. *)
Opened ==
    /\ segments # <<>>
    /\ RawUpper(segments[1]) = "("
    /\ \E i \in 2..Len(segments) : BracketDepth(i) = -1

(* The place of the partner: where the brackets opened since are closed    *)
(* and one more.                                                           *)
ClosePlace ==
    CHOOSE i \in 2..Len(segments) :
        /\ BracketDepth(i) = -1
        /\ \A j \in 2..(i - 1) : BracketDepth(j) >= 0

Interior == SubSeq(segments, 2, ClosePlace - 1)

InteriorPre == IF grammar.allow_gaps THEN trim_non_code(Interior)[1] ELSE <<>>

InteriorContent ==
    IF grammar.allow_gaps THEN trim_non_code(Interior)[2] ELSE Interior

InteriorPost == IF grammar.allow_gaps THEN trim_non_code(Interior)[3] ELSE <<>>

(* What the body of the grammar, a Sequence of its elements, matches of    *)
(* the content.                                                            *)
Body == SequenceMatch(grammar, InteriorContent, deeper_match(NewContext))

BodyComplete == ~Raised(Body) /\ has_match(Body) /\ is_complete(Body)

(* C19: for Bracketed on an opening bracket, a content that the body       *)
(* matches completely, and the closing bracket, the match is the opening   *)
(* bracket, the non-code before the content, one Indent, the match of the  *)
(* content, one Dedent, the non-code after the content and the closing     *)
(* bracket; what follows the closing bracket is unmatched; and without the *)
(* meta segments the result is the input.                                  *)
C19_BracketedWrapsContent ==
    /\ pc = "done"
    /\ grammar.kind = "Bracketed"
    /\ Opened
    /\ InteriorContent # <<>>
    /\ BodyComplete
    => /\ ~Raised(result)
       /\ result.matched =
              <<segments[1]>> \o InteriorPre \o <<MetaSeg("indent")>>
                  \o Body.matched \o <<MetaSeg("dedent")>> \o InteriorPost
                  \o <<segments[ClosePlace]>>
       /\ result.unmatched = Tail2(segments, ClosePlace)
       /\ NonMeta(result.matched \o result.unmatched) = segments

(* What follows the closing bracket. *)
AfterClose == Tail2(segments, ClosePlace)

(* The non-code that the match of the closing bracket takes with it: all   *)
(* that follows the bracket, when gaps are allowed and none of it is code. *)
Trailing ==
    IF grammar.allow_gaps /\ \A i \in 1..Len(AfterClose) : ~IsCode(AfterClose[i])
    THEN AfterClose ELSE <<>>

(* C19, with the non-code at the end of the input: as C19, but when gaps   *)
(* are allowed and only non-code follows the closing bracket, that         *)
(* non-code is matched after the closing bracket and nothing is unmatched. *)
C19_BracketedWrapsContentAndTrailing ==
    /\ pc = "done"
    /\ grammar.kind = "Bracketed"
    /\ Opened
    /\ InteriorContent # <<>>
    /\ BodyComplete
    => /\ ~Raised(result)
       /\ result.matched =
              <<segments[1]>> \o InteriorPre \o <<MetaSeg("indent")>>
                  \o Body.matched \o <<MetaSeg("dedent")>> \o InteriorPost
                  \o <<segments[ClosePlace]>> \o Trailing
       /\ result.unmatched = Tail2(AfterClose, Len(Trailing))
       /\ NonMeta(result.matched \o result.unmatched) = segments

(* Bracketed(A) on "( A ) _": the whitespace after the closing bracket is  *)
(* matched.                                                                *)
C19_TrailingWhitespaceMatched ==
    /\ pc = "done"
    /\ grammar = Bracketed(<<A>>)
    /\ RawsOf(segments) = <<"(", "A", ")", "_">>
    /\ BodyComplete
    /\ result.matched =
           <<segments[1], MetaSeg("indent"), segments[2], MetaSeg("dedent"),
             segments[3], segments[4]>>
    /\ result.unmatched = <<>>

(* Bracketed(A) on "( _ A ) A": the whitespace is before the Indent, and   *)
(* the last segment is unmatched.                                          *)
C19_WhitespaceOutsideIndent ==
    /\ pc = "done"
    /\ grammar = Bracketed(<<A>>)
    /\ RawsOf(segments) = <<"(", "_", "A", ")", "A">>
    /\ BodyComplete
    /\ result.matched =
           <<segments[1], segments[2], MetaSeg("indent"), segments[3],
             MetaSeg("dedent"), segments[4]>>
    /\ result.unmatched = <<segments[5]>>

(* C20: with a content between the opening bracket and its partner, (the   *)
(* interior, trimmed of its non-code where gaps are allowed), Bracketed    *)
(* matches only when the body, the Sequence of its elements, matches the   *)
(* content completely; when the body matches part of the content or none   *)
(* of it, the result is unmatched over the whole input.                    *)
C20_ContentMatchedCompletely ==
    /\ pc = "done"
    /\ grammar.kind = "Bracketed"
    /\ Opened
    /\ InteriorContent # <<>>
    /\ ~Raised(result)
    => /\ has_match(result) => BodyComplete
       /\ ~BodyComplete => result.matched = <<>> /\ result.unmatched = segments

(* Bracketed(A) on "( A A )": the body matches the first "A" only, and the *)
(* result is unmatched.                                                    *)
C20_PartialContent ==
    /\ pc = "done"
    /\ grammar = Bracketed(<<A>>)
    /\ RawsOf(segments) = <<"(", "A", "A", ")">>
    /\ has_match(Body) /\ ~is_complete(Body)
    /\ result.matched = <<>>
    /\ result.unmatched = segments

----------------------------------------------------------------------------
(* Properties of GreedyUntil and StartsWith.                               *)

(* The brackets open before the i-th segment. *)
DepthBefore(i) ==
    Cardinality({j \in 1..(i - 1) : RawUpper(segments[j]) = "("})
        - Cardinality({j \in 1..(i - 1) : RawUpper(segments[j]) = ")"})

(* The segment is one that a terminator of the GreedyUntil matches. *)
GreedyTerminator(seg) ==
    \E k \in 1..Len(grammar.elements) : MatchesAll(grammar.elements[k], seg)

(* The places of the terminators that are outside all brackets. *)
TerminatorsOutside ==
    {i \in 1..Len(segments) :
        GreedyTerminator(segments[i]) /\ DepthBefore(i) = 0}

FirstOutside ==
    CHOOSE i \in TerminatorsOutside : \A j \in TerminatorsOutside : i <= j

GreedyReturned ==
    /\ pc = "done"
    /\ grammar.kind = "GreedyUntil"
    /\ ~grammar.enforce_whitespace_preceeding_terminator
    /\ ~Raised(result)

(* C21: GreedyUntil.match matches the input up to the first of its         *)
(* terminators that is outside all brackets, and leaves that terminator    *)
(* and all that follows unmatched; without such a terminator it matches    *)
(* the whole input.                                                        *)
C21_UpToFirstTerminator ==
    GreedyReturned
    => IF TerminatorsOutside # {}
       THEN /\ result.matched = Head2(segments, FirstOutside - 1)
            /\ result.unmatched = Tail2(segments, FirstOutside - 1)
       ELSE /\ result.matched = segments
            /\ result.unmatched = <<>>

(* What precedes the i-th segment, less the non-code at its end. *)
CodeBefore(i) ==
    Head2(segments, (i - 1) - TrailingNonCode(Head2(segments, i - 1)))

(* Some code precedes the i-th segment, or nothing does, or gaps are       *)
(* allowed.                                                                *)
CodeOrGaps(i) ==
    \/ grammar.allow_gaps
    \/ i = 1
    \/ \E j \in 1..(i - 1) : IsCode(segments[j])

(* C21, with the non-code before the terminator: the match ends with the   *)
(* last code segment before the terminator, and the non-code between that  *)
(* segment and the terminator is unmatched with the terminator.            *)
C21_UpToCodeBeforeTerminator ==
    GreedyReturned
    => IF TerminatorsOutside # {}
       THEN CodeOrGaps(FirstOutside)
            => /\ result.matched = CodeBefore(FirstOutside)
               /\ result.unmatched
                      = Tail2(segments, Len(CodeBefore(FirstOutside)))
       ELSE /\ result.matched = segments
            /\ result.unmatched = <<>>

(* GreedyUntil(";") on "( ; ) ; A": the terminator in the brackets is      *)
(* passed, and the match ends before the one after them.                   *)
C21_TerminatorInBracketsSkipped ==
    /\ GreedyReturned
    /\ grammar = GreedyUntil(<<Semicolon>>)
    /\ RawsOf(segments) = <<"(", ";", ")", ";", "A">>
    /\ FirstOutside = 4
    /\ result.matched = Head2(segments, 3)
    /\ result.unmatched = Tail2(segments, 3)

(* GreedyUntil(";") on "A _ ;": the whitespace before the terminator is    *)
(* not matched.                                                            *)
C21_WhitespaceBeforeTerminator ==
    /\ GreedyReturned
    /\ grammar = GreedyUntil(<<Semicolon>>)
    /\ RawsOf(segments) = <<"A", "_", ";">>
    /\ result.matched = Head2(segments, 1)
    /\ result.unmatched = Tail2(segments, 1)

EnforcingReturned ==
    /\ pc = "done"
    /\ grammar.kind = "GreedyUntil"
    /\ grammar.enforce_whitespace_preceeding_terminator
    /\ ~Raised(result)

(* C22: with enforce_whitespace_preceeding_terminator, the terminators     *)
(* that are rejected are kept as content: the match is the segments of the *)
(* input from its start, in order, and it and the unmatched segments are   *)
(* the whole input.                                                        *)
C22_RejectedTerminatorsKept ==
    EnforcingReturned
    => /\ result.matched = Head2(segments, Len(result.matched))
       /\ result.matched \o result.unmatched = segments

(* GreedyUntil(";", enforce_whitespace_preceeding_terminator) on           *)
(* "A ; A ; ;": two terminators are rejected, the third is accepted, and   *)
(* the match is the third and fourth segments only.                        *)
C22_FirstRejectedLost ==
    /\ EnforcingReturned
    /\ RawsOf(segments) = <<"A", ";", "A", ";", ";">>
    /\ result.matched = SubSeq(segments, 3, 4)
    /\ result.unmatched = Tail2(segments, 4)

(* On an input of four segments or fewer, where at most one terminator is  *)
(* rejected before one is accepted, nothing is lost.                       *)
OneRejectedTerminatorKept ==
    EnforcingReturned /\ Len(segments) <= 4 => C22_RejectedTerminatorsKept

StartsWithReturned ==
    /\ pc = "done"
    /\ grammar.kind = "StartsWith"
    /\ grammar.allow_gaps
    /\ ~Raised(result)

(* The non-code before the first code segment, and the input from that     *)
(* segment on.                                                             *)
NonCodeBefore == Head2(segments, LeadingNonCode(segments))

FromFirstCode == Tail2(segments, LeadingNonCode(segments))

(* What the target matches from the first code segment on. *)
TargetMatch == Match(grammar.target[1], FromFirstCode, deeper_match(NewContext))

TargetMatches ==
    FromFirstCode # <<>> /\ ~Raised(TargetMatch) /\ has_match(TargetMatch)

(* The match starts with what the target matched. *)
StartsWithTargetMatch ==
    Head2(result.matched, Len(TargetMatch.matched)) = TargetMatch.matched

(* C23: StartsWith.match returns a match if and only if its target matches *)
(* from the first code segment of the input on; the match then starts with *)
(* what the target matched, and the non-code segments before the first     *)
(* code segment are still part of the result.                              *)
C23_StartsWithKeepsInput ==
    StartsWithReturned
    => /\ has_match(result) <=> TargetMatches
       /\ has_match(result)
              => /\ StartsWithTargetMatch
                 /\ \A i \in 1..Len(NonCodeBefore) :
                        InSeq(result.matched \o result.unmatched, NonCodeBefore[i])

(* StartsWith(A) on "_ A": the match is "A", and the whitespace before it  *)
(* is neither matched nor unmatched.                                       *)
C23_LeadingWhitespaceDropped ==
    /\ StartsWithReturned
    /\ grammar = StartsWith(A)
    /\ RawsOf(segments) = <<"_", "A">>
    /\ result.matched = Tail(segments)
    /\ result.unmatched = <<>>

(* A match is returned if and only if the target matches from the first    *)
(* code segment on, it starts with the target's match, and with the        *)
(* unmatched segments it is the input from the first code segment on.      *)
StartsWithFromFirstCode ==
    StartsWithReturned
    => /\ has_match(result) <=> TargetMatches
       /\ has_match(result)
              => /\ StartsWithTargetMatch
                 /\ result.matched \o result.unmatched = FromFirstCode

----------------------------------------------------------------------------
(* min_delimiters.                                                         *)

(* The input up to the first terminator, or all of it. *)
Scanned ==
    IF grammar.terminator # <<>>
       /\ \E i \in 1..Len(segments) : IsTerminator(segments[i])
    THEN BeforeTerminator ELSE segments

(* C24: a match that Delimited returns with min_delimiters = k holds at     *)
(* least k delimiters, and when fewer than k delimiters come before the    *)
(* end of the input or the terminator the result is unmatched over the     *)
(* whole input.                                                            *)
C24_MinDelimiters ==
    /\ pc = "done"
    /\ grammar.kind = "Delimited"
    /\ grammar.min_delimiters # <<>>
    /\ ~Raised(result)
    => /\ has_match(result)
              => Cardinality(Delimiters(result.matched))
                     >= grammar.min_delimiters[1]
       /\ Cardinality(Delimiters(Scanned)) < grammar.min_delimiters[1]
              => result.matched = <<>> /\ result.unmatched = segments

(* Delimited(A, delimiter=";", allow_trailing, min_delimiters=2) on        *)
(* "A ; A": one delimiter, and the result is unmatched.                    *)
C24_OneDelimiterOfTwo ==
    /\ pc = "done"
    /\ grammar.kind = "Delimited"
    /\ grammar.min_delimiters = <<2>>
    /\ RawsOf(segments) = <<"A", ";", "A">>
    /\ Cardinality(Delimiters(Scanned)) = 1
    /\ result.matched = <<>>
    /\ result.unmatched = segments

----------------------------------------------------------------------------
(* Properties of the look-ahead.                                           *)

Looked == pc = "looked" /\ ~Raised(result.m)

NoStartsWith == \A k \in DOMAIN grammar.elements : grammar.elements[k].kind # "StartsWith"

(* With matchers that hand back their own input whole, the look-ahead      *)
(* hands back its input whole too, on every path.                          *)
LookAheadKeepsInputOfKeepingMatchers ==
    (Looked /\ NoStartsWith)
    => NonMeta(result.pre \o result.m.matched \o result.m.unmatched) = segments

AllCode(segs) == \A i \in DOMAIN segs : IsCode(segs[i])

(* What matcher k of the call returns on the input from position p on. *)
MatchAt(k, p) == Match(grammar.elements[k], Tail2(segments, p), NewContext)

(* The (position, matcher) pairs where a matcher matches. *)
Candidates ==
    {c \in (0..(Len(segments) - 1)) \X DOMAIN grammar.elements :
        has_match(MatchAt(c[2], c[1]))}

MatchedLen(c) == Len(MatchAt(c[2], c[1]).matched)

(* The documented priority: first match, then longest, then first matcher. *)
Prior(c, d) ==
    \/ c[1] < d[1]
    \/ c[1] = d[1] /\ MatchedLen(c) > MatchedLen(d)
    \/ c[1] = d[1] /\ MatchedLen(c) = MatchedLen(d) /\ c[2] < d[2]

Winner == CHOOSE c \in Candidates : \A d \in Candidates \ {c} : Prior(c, d)

(* C26: the match that _look_ahead_match returns is the one at the         *)
(* earliest position among all the matchers that match somewhere; at the   *)
(* same position the longest; at the same length the first in the list of  *)
(* matchers.  Stated on inputs of code segments, where a position is the   *)
(* number of segments before the match.                                    *)
C26_EarliestLongestFirst ==
    (Looked /\ AllCode(segments) /\ has_match(result.m))
    => /\ Candidates # {}
       /\ <<Len(result.pre), result.matcher>> = Winner

(* Two simple matchers at the same position: the one first in the list is  *)
(* returned although the other one matches more.                           *)
C26_ShorterOfTwoReturned ==
    /\ Looked
    /\ RawsOf(segments) = <<"A", "B">>
    /\ grammar.elements = <<A, Sequence(<<A, B>>)>>
    /\ result.matcher = 1
    /\ result.pre = <<>>
    /\ Len(result.m.matched) = 1
    /\ Winner = <<0, 2>>

OneSegmentMatchers ==
    \A k \in DOMAIN grammar.elements : grammar.elements[k] \in {A, B, NonSimpleB}

(* With matchers of one segment, where no two matches differ in length and *)
(* a matcher matches wherever its string occurs, the priority is kept.     *)
LookAheadPriorityOfOneSegmentMatchers ==
    (Looked /\ AllCode(segments) /\ OneSegmentMatchers /\ has_match(result.m))
    => /\ Candidates # {}
       /\ <<Len(result.pre), result.matcher>> = Winner

(* The candidates of the matchers that have a simple(). *)
SimpleCandidates == {c \in Candidates : Truthy(simple(grammar.elements[c[2]]))}

(* C30: when a matcher with a simple() matches somewhere in the input,     *)
(* _look_ahead_match returns a match, also when the matcher's string is    *)
(* found earlier at a place where the matcher itself does not match.       *)
C30_SimpleMatchFound ==
    (Looked /\ SimpleCandidates # {}) => has_match(result.m)

(* The string "A" of Sequence(A, B) is looked up once, at its first place: *)
(* the match at the second place is never tried.                           *)
C30_LaterPlaceMissed ==
    /\ Looked
    /\ RawsOf(segments) = <<"A", "A", "B">>
    /\ grammar.elements = <<Sequence(<<A, B>>)>>
    /\ SimpleCandidates = {<<1, 1>>}
    /\ ~has_match(result.m)
    /\ result.m.unmatched = segments
    /\ result.matcher = 0

(* A match of a simple matcher at a place before which none of its strings *)
(* occurs is found: the look-ahead then returns a match.                   *)
SimpleMatchAtFirstPlaceFound ==
    (/\ Looked
     /\ \E c \in SimpleCandidates :
            \A p \in 0..(c[1] - 1) :
               ~InSeq(simple(grammar.elements[c[2]]).opts, segments[p + 1].raw))
    => has_match(result.m)

----------------------------------------------------------------------------
(* Properties of the longest match.                                        *)

LongestDone == pc = "longest" /\ ~Raised(result.m)

(* What matcher k of the call returns on the whole input. *)
LongestAttempt(k) ==
    code_only_sensitive_match(segments, grammar.elements[k], NewContext,
                              grammar.allow_gaps)

CompleteMatchers == {k \in DOMAIN grammar.elements : is_complete(LongestAttempt(k))}

PartialMatchers ==
    {k \in DOMAIN grammar.elements :
        ~is_complete(LongestAttempt(k)) /\ has_match(LongestAttempt(k))}

Least(S) == CHOOSE k \in S : \A j \in S : k <= j

LongestPartials ==
    {k \in PartialMatchers :
        \A j \in PartialMatchers :
           Len(LongestAttempt(j).matched) <= Len(LongestAttempt(k).matched)}

(* The matcher the documentation names: 0 stands for no matcher. *)
LongestChoice ==
    IF Len(segments) = 0 THEN 0
    ELSE IF CompleteMatchers # {} THEN Least(CompleteMatchers)
    ELSE IF PartialMatchers # {} THEN Least(LongestPartials)
    ELSE 0

(* C27: _longest_code_only_sensitive_match returns the match of the first  *)
(* matcher that matches completely, with that matcher; with no complete    *)
(* match, the longest partial match, the earliest matcher among those of   *)
(* the same length; with no match at all, the input unmatched and no       *)
(* matcher.                                                                *)
C27_LongestMatch ==
    LongestDone
    => /\ result.matcher = LongestChoice
       /\ result.pre = <<>>
       /\ IF LongestChoice = 0
          THEN result.m.matched = <<>> /\ result.m.unmatched = segments
          ELSE /\ result.m.matched = LongestAttempt(LongestChoice).matched
               /\ result.m.unmatched = LongestAttempt(LongestChoice).unmatched

(* Two partial matches of the same length: the first matcher is returned. *)
C27_TieOfPartials ==
    /\ LongestDone
    /\ RawsOf(segments) = <<"B", "A">>
    /\ grammar.elements = <<B, NonSimpleB>>
    /\ PartialMatchers = {1, 2}
    /\ LongestPartials = {1, 2}
    /\ result.matcher = 1
    /\ Len(result.m.matched) = 1

(* A complete match after a partial one is the one returned. *)
C27_CompleteAfterPartial ==
    /\ LongestDone
    /\ PartialMatchers # {}
    /\ CompleteMatchers # {}
    /\ Least(PartialMatchers) < Least(CompleteMatchers)
    /\ result.matcher = Least(CompleteMatchers)

----------------------------------------------------------------------------
(* Termination of the loops.                                               *)

(* C28: every iteration of the loop of AnyNumberOf.match that matches and  *)
(* goes on leaves less of the input to match than it was given, so the     *)
(* loop ends also with max_times unset.                                    *)
C28_IterationShortensInput ==
    [][(pc = "loop" /\ pc' = "loop") => Len(seg_buff') < Len(seg_buff)]_vars

(* With an element whose match is an inserted meta segment alone, the loop *)
(* has matched as many times as it was let to, and the whole input is left. *)
C28_LoopTakesNothing ==
    /\ pc = "loop"
    /\ grammar.max_times = <<>>
    /\ idx = MaxIterations
    /\ segments # <<>>
    /\ seg_buff = segments
    /\ Len(matched_segments) = MaxIterations
    /\ NonMeta(matched_segments) = <<>>
    /\ ~LoopReturns

(* With elements that take a segment of the input when they match, every   *)
(* iteration that goes on shortens what is left.                           *)
ConsumingIterationShortensInput ==
    [][(pc = "loop" /\ pc' = "loop" /\ grammar \in ConsumingLoopGrammars)
          => Len(seg_buff') < Len(seg_buff)]_vars

(* The loop stepped is the loop of AnyNumberOf.match. *)
LoopIsAnyNumberOfMatch ==
    (pc = "done" /\ grammar \in ConsumingLoopGrammars)
    => /\ result.matched = Match(grammar, segments, NewContext).matched
       /\ result.unmatched = Match(grammar, segments, NewContext).unmatched

(* Every iteration of _bracket_sensitive_look_ahead_match that goes on     *)
(* shortens its buffer.                                                    *)
ScanShortensBuffer ==
    [][(Scanning /\ ScanGoesOn([branch |-> pc']))
          => Len(seg_buff') < Len(seg_buff)]_vars

----------------------------------------------------------------------------
(* Pruning.                                                                *)

(* The attempt with every element tried: _match_once without pruning. *)
Unpruned == MatchOncePruned(grammar.elements, segments, NewContext)

Pruned == prune_options(grammar, Simples(grammar.elements), segments)

(* C29: _match_once returns with pruning what it returns with every        *)
(* element tried, on every input, also one that starts with non-code.      *)
C29_PruningKeepsResult ==
    (pc = "done" /\ ~Raised(result))
    => /\ result.matched = Unpruned.matched
       /\ result.unmatched = Unpruned.unmatched

(* A comment before the keyword: Sequence(A) is pruned, although it        *)
(* matches the whole input.                                                *)
C29_PrunedAfterComment ==
    /\ pc = "done"
    /\ RawsOf(segments) = <<"#", "A">>
    /\ grammar.elements = <<Sequence(<<A>>)>>
    /\ Pruned = <<>>
    /\ ~has_match(result)
    /\ Unpruned.matched = segments

NoComment(segs) == \A i \in DOMAIN segs : segs[i].type # "comment"

(* On an input whose non-code segments are whitespace, pruning keeps the   *)
(* result.                                                                 *)
PruningKeepsResultWithoutComments ==
    (pc = "done" /\ ~Raised(result) /\ NoComment(segments))
    => /\ result.matched = Unpruned.matched
       /\ result.unmatched = Unpruned.unmatched

(* An element is pruned on an input that starts with whitespace, and the   *)
(* result has a match.                                                     *)
PrunedAfterWhitespace ==
    /\ pc = "done"
    /\ NoComment(segments)
    /\ segments # <<>>
    /\ ~IsCode(segments[1])
    /\ Len(Pruned) < Len(grammar.elements)
    /\ has_match(result)

====
